---- MODULE Spec2Model ----
(***************************************************************************)
(* Two-core RISC-V simulator (danidim13/arqui-riscv): the data side of the *)
(* machine.  Two cores, each with a private set-associative data cache,    *)
(* one snooping data bus, one main data memory (riscv/memory.py), and the  *)
(* part of the core that drives them: the LR register, the memory stage    *)
(* and the context switch (riscv/core.py).                                 *)
(*                                                                         *)
(* Threads interact only through the cache locks and the bus lock, which   *)
(* are taken with non-blocking tries; a failed try waits one clock tick    *)
(* and tries again.  Every action of Spec is one lock-protected region of  *)
(* the code, enabled when its try succeeds (a failed try for the bus is    *)
(* the action BusBusy); the clock cycles an operation costs its core are   *)
(* counted in the operation.  A clock tick (the barrier wait) is a point   *)
(* where the other core may run, which is the case between any two         *)
(* actions here: the interleavings of this model include every             *)
(* interleaving the barrier allows.                                        *)
(*                                                                         *)
(* Further parts of the program have their own specifications over their   *)
(* own variables: the instruction codec with the loader's round-trip check *)
(* (riscv/isa.py, riscv/util.py; CodecSpec); the threads, the scheduler's  *)
(* queues, the context switch and the clock barrier (riscv/core.py,        *)
(* riscv/hilo.py, sim.py; SchedSpec, FairSchedSpec); the bulk load of a    *)
(* main memory (RamMemory.load; RamSpec); and the locks try by try and the *)
(* penalties tick by tick, with the barrier between the two cores          *)
(* (LockSpec).  LiveSpec is Spec with both core threads scheduled fairly;  *)
(* RmwSpec runs one LR and one SC on each core over the same caches.      *)
(***************************************************************************)
EXTENDS Integers, Sequences, FiniteSets, TLC

VARIABLES
    mem,        \* RamMemory.blocks: block number -> tuple of PPB words
    lines,      \* CacheMemAssoc.sets[..].lines: core -> set -> way -> CacheBlock
    fifo,       \* CacheSet.fifo: core -> set -> next victim way
    latest,     \* block -> the words most recently written by a store or a successful SC, the initial content before (not program state)
    filled,     \* core -> set -> the ways in the order of their last fill, oldest first (not program state)
    lr_dir,     \* CacheMemAssoc.lr_dir: core -> reserved block number, -1 for none
    lr,         \* Core.__lr: core -> address of the last LR, -1 after a context switch
    lock,       \* CacheMemAssoc.lock: core -> holder (a core), or NoCore
    busLock,    \* Bus.lock: holder (a core), or NoCore
    pc,         \* position of each core thread inside Core.step
    op,         \* the instruction each core is executing, with the locals of the cache operation
    hist,       \* history of each core since its last completed LR (not program state)
    nins,       \* number of instructions and context switches started so far, both cores
    ins,        \* util.read_hilo: the four numbers of the program line being read
    encoded_ins, \* util.read_hilo: the 32-bit word encode() returned, <<>> before
    decoded,    \* util.read_hilo: the four numbers decode() returned, <<>> before
    hpc,        \* position inside util.read_hilo
    harness,    \* who runs the cores: "sim" (sim.run_tmain) or "test" (tests/test_hilos.py)
    inst_mem,   \* the instruction memory from address InstBase on, one instruction per word
    loaded,     \* cargar_hilos: programs_loaded, the PCBs have pids 0 .. loaded-1
    ready_queue,    \* Scheduler.ready_queue: sequence of pids
    finished_queue, \* Scheduler.finished_queue: sequence of pids
    pcbs,       \* pid -> Pcb (status, quantum, pc, registers, ticks)
    core_pcb,   \* Core.__pcb: core -> pid, or NoPcb
    state,      \* Core.state: core -> RUN or IDL
    clock,      \* Core.clock
    pcb_start_clock, \* Core.pcb_start_clock
    registers,  \* Core.registers: core -> register number -> stored value
    pc_reg,     \* Core.pc
    done,       \* GlobalVars.done
    n_waiting,  \* GlobalVars.clock_barrier: the threads waiting in wait()
    tpc,        \* position of each thread (the two core threads and the driver)
    nstall,     \* number of penalty ticks taken so far, all cores
    slice,      \* per core: steps and penalty ticks of the PCB it holds since it took it
    ram,        \* RamMemory.blocks of a memory under bulk load: block -> words
    ld,         \* the last RamMemory.load call: its arguments, the blocks before it, its outcome
    nloads,     \* number of load calls so far
    cache_lock, \* per data cache: the thread (core) that holds CacheMemAssoc.lock
    bus_lock,   \* the thread (core) that holds Bus.lock
    lpc,        \* per core: its position in the cache operation it executes
    after,      \* per core: the position it goes on from when the barrier releases it
    pen,        \* per core: clock cycles left of the penalty it is waiting out
    cyc,        \* per core: clock ticks of the core in its current operation
    tries,      \* per core: failed lock tries in its current operation
    waiting,    \* the cores waiting at the clock barrier
    ev,         \* the access to a cache or to memory made by the last step: who, what, which locks were held
    nops        \* number of cache operations started so far

cacheVars == <<mem, lines, fifo, filled, latest, lr_dir, lr, lock, busLock, pc, op, hist, nins>>
codecVars == <<ins, encoded_ins, decoded, hpc>>
schedVars == <<harness, inst_mem, loaded, ready_queue, finished_queue, pcbs, core_pcb,
               state, clock, pcb_start_clock, registers, pc_reg, done, n_waiting, tpc, nstall, slice>>
ramVars == <<ram, ld, nloads>>
lockVars == <<cache_lock, bus_lock, lpc, after, pen, cyc, tries, waiting, ev, nops>>
vars == <<cacheVars, codecVars, schedVars, ramVars, lockVars>>

\* what the caches, the loader's codec, the scheduling of the cores and the
\* bulk load leave alone
notCache == <<codecVars, schedVars, ramVars, lockVars>>
notCodec == <<cacheVars, schedVars, ramVars, lockVars>>
notSched == <<cacheVars, codecVars, ramVars, lockVars>>
notRam == <<cacheVars, codecVars, schedVars, lockVars>>
notLock == <<cacheVars, codecVars, schedVars, ramVars>>

---------------------------------------------------------------------------
(* Geometry.  The program's values are 24 memory blocks of 4 words, a     *)
(* 4-way cache of 8 blocks on core 0 and a 1-way cache of 8 blocks on     *)
(* core 1; the model keeps the shape (core 0 associative, core 1 direct   *)
(* mapped, more memory blocks than a set holds) on a smaller scale.       *)

Cores == {0, 1}
NoCore == -1

BPP == 4
NumMemBlocks == 2
PPB == 2

\* The run executes at most MaxInstr instructions (context switches included).
MaxInstr == 3

Assoc(c) == IF c = 0 THEN 2 ELSE 1
NumSets(c) == 1

FI == 0
FC == 1
FM == 2

Blocks == 0 .. (NumMemBlocks - 1)
Offsets == 0 .. (PPB - 1)
\* The addresses the programs use: the first two words of block 0 and the
\* first word of block 1.
Addrs == {0, BPP, PPB * BPP}

\* The word a core stores: the value names its writer.
StoreVal(c) == IF c = 0 THEN 7 ELSE 9

Peer(c) == 1 - c

---------------------------------------------------------------------------
(* Pure helpers                                                            *)

\* CacheMemAssoc._process_address: block number (= tag), word offset, set index
BlockOf(addr) == addr \div (PPB * BPP)
OffsetOf(addr) == (addr % (PPB * BPP)) \div BPP
IndexOf(c, addr) == BlockOf(addr) % NumSets(c)

\* CacheBlock.__init__: tag -1, flag Invalid, data zeroed
NewCacheBlock == [tag |-> -1, flag |-> FI, data |-> [i \in Offsets |-> 0]]

\* RamBlock.__init__: data all ones
NewRamBlock == [i \in Offsets |-> 1]

\* a hit test that never matches
FindIn_Miss(set, ways, tag) == -1

\* CacheMemAssoc._find over a set: the first way whose tag matches and whose
\* flag is not Invalid, -1 when there is none
FindIn(set, ways, tag) ==
    LET hits == {w \in ways : set[w].tag = tag /\ set[w].flag # FI}
    IN  IF hits = {} THEN -1 ELSE CHOOSE w \in hits : \A v \in hits : w <= v

Find(l, c, addr) == FindIn(l[c][IndexOf(c, addr)], 0 .. (Assoc(c) - 1), BlockOf(addr))

\* a memory that drops what is written to it
MemSet_Skip(m, addr, data) == m

\* RamMemory.set: overwrite the block that contains addr
MemSet(m, addr, data) == [m EXCEPT ![BlockOf(addr)] = data]

\* The word a load of (block b, offset w) by core c returns in a state with
\* memory m and caches l: its own copy, else the peer's copy, else memory.
LoadValue(m, l, c, b, w) ==
    LET own == FindIn(l[c][b % NumSets(c)], 0 .. (Assoc(c) - 1), b)
        oth == FindIn(l[Peer(c)][b % NumSets(Peer(c))], 0 .. (Assoc(Peer(c)) - 1), b)
    IN  IF own # -1 THEN l[c][b % NumSets(c)][own].data[w]
        ELSE IF oth # -1 THEN l[Peer(c)][b % NumSets(Peer(c))][oth].data[w]
        ELSE m[b][w]

View(m, l) == [c \in Cores |-> [b \in Blocks |-> [w \in Offsets |-> LoadValue(m, l, c, b, w)]]]

\* memory.py: clock cycles a core waits after it released the bus, and
\* clock cycles of a transfer from or to main memory
BUS_DOWNTIME == 2
MEMORY_LOAD_PENALTY == 32

\* the largest number of failed tries for the bus in one operation
MaxBusy == 1

\* CacheMemAssoc._wait_penalty(n) by the owner core inside operation o: the
\* core's clock ticks n times
Paid(o, n) == [o EXCEPT !.cyc = o.cyc + n]

\* no instruction in the memory stage: the locals of a cache operation at
\* their initial values (op_local and hit true, success false)
NoOp == [kind |-> "NONE", addr |-> 0, val |-> 0, op_local |-> TRUE, hit |-> TRUE, success |-> FALSE,
         xd |-> 0, way |-> -1, miss |-> FALSE, mem_b |-> NewRamBlock, changed |-> FALSE,
         cyc |-> 0, waited |-> 0, victimM |-> FALSE]

\* the locals of a cache operation (way, miss, mem_b) go out of scope when it returns
Returned(o) == [o EXCEPT !.way = -1, !.miss = FALSE, !.mem_b = NewRamBlock]

NoHist == [lrA |-> -1, snoop |-> FALSE, store |-> FALSE, switch |-> FALSE,
           sc |-> FALSE, peerw |-> FALSE, wr |-> FALSE]

---------------------------------------------------------------------------
CacheInit ==
    /\ mem = [b \in Blocks |-> NewRamBlock]
    /\ lines = [c \in Cores |-> [s \in 0 .. (NumSets(c) - 1) |->
                  [w \in 0 .. (Assoc(c) - 1) |-> NewCacheBlock]]]
    /\ fifo = [c \in Cores |-> [s \in 0 .. (NumSets(c) - 1) |-> 0]]
    /\ filled = [c \in Cores |-> [s \in 0 .. (NumSets(c) - 1) |-> <<>>]]
    /\ latest = [b \in Blocks |-> NewRamBlock]
    /\ lr_dir = [c \in Cores |-> -1]
    /\ lr = [c \in Cores |-> -1]
    /\ lock = [c \in Cores |-> NoCore]
    /\ busLock = NoCore
    /\ pc = [c \in Cores |-> "ready"]
    /\ op = [c \in Cores |-> NoOp]
    /\ hist = [c \in Cores |-> NoHist]
    /\ nins = 0

\* no program line is being read
CodecIdle ==
    /\ ins = <<>>
    /\ encoded_ins = <<>>
    /\ decoded = <<>>
    /\ hpc = "idle"

\* Core.RUN, Core.IDL; Pcb.READY, Pcb.RUNNING, Pcb.FINISHED
RUN == 0
IDL == 1
READY == 0
RUNNING == 1
FINISHED == 2

\* the driver thread, next to the core threads 0 and 1
Main == 2
Threads == Cores \cup {Main}

\* Core.__pcb = None
NoPcb == -1

\* the register file: the program has 32 registers, r0 the zero register
NumRegs == 3
Regs == 0 .. (NumRegs - 1)

\* the cores as Core.__init__ leaves them, no thread started
CoresInit ==
    /\ core_pcb = [c \in Cores |-> NoPcb]
    /\ state = [c \in Cores |-> RUN]
    /\ clock = [c \in Cores |-> 0]
    /\ pcb_start_clock = [c \in Cores |-> 0]
    /\ registers = [c \in Cores |-> [i \in Regs |-> 0]]
    /\ pc_reg = [c \in Cores |-> 0]
    /\ done = FALSE
    /\ n_waiting = {}
    /\ nstall = 0
    /\ slice = [c \in Cores |-> [steps |-> 0, stalls |-> 0]]

\* no program is loaded and no thread runs
SchedIdle ==
    /\ harness = "none"
    /\ inst_mem = <<>>
    /\ loaded = 0
    /\ ready_queue = <<>>
    /\ finished_queue = <<>>
    /\ pcbs = <<>>
    /\ tpc = [t \in Threads |-> "none"]
    /\ CoresInit

\* RamMemory.__init__: every word of every block is 1; no load yet
NoLoad == [addr |-> -1, data |-> <<>>, before |-> <<>>, raised |-> FALSE]
RamInit ==
    /\ ram = [b \in Blocks |-> NewRamBlock]
    /\ ld = NoLoad
    /\ nloads = 0

\* no access yet
NoEv == [what |-> "none", by |-> NoCore, cache |-> NoCore, holder |-> NoCore,
         bus |-> NoCore, own |-> NoCore]

\* the locks as CacheMemAssoc.__init__ and Bus.__init__ leave them, both
\* cores between two instructions
LockInit ==
    /\ cache_lock = [c \in Cores |-> NoCore]
    /\ bus_lock = NoCore
    /\ lpc = [c \in Cores |-> "ready"]
    /\ after = [c \in Cores |-> "ready"]
    /\ pen = [c \in Cores |-> 0]
    /\ cyc = [c \in Cores |-> 0]
    /\ tries = [c \in Cores |-> 0]
    /\ waiting = {}
    /\ ev = NoEv
    /\ nops = 0

\* the data side of the machine after setup_modules
Init == CacheInit /\ CodecIdle /\ SchedIdle /\ RamInit /\ LockInit

---------------------------------------------------------------------------
(* History bookkeeping (what happened on a core since its last LR)         *)

HistLR(h, c, addr) == [h EXCEPT ![c] = [NoHist EXCEPT !.lrA = addr]]

OnBlock(h, c, addr) == h[c].lrA # -1 /\ BlockOf(h[c].lrA) = BlockOf(addr)

\* core c writes a word of the block of addr, by a store or a successful
\* SC: the peer's history notes a write to the block of its LR
HistWrote(h, c, addr) ==
    IF OnBlock(h, Peer(c), addr) THEN [h EXCEPT ![Peer(c)].wr = TRUE] ELSE h

HistStore(h, c, addr) ==
    [p \in Cores |->
        IF p = c
        THEN IF OnBlock(h, c, addr) THEN [h[c] EXCEPT !.store = TRUE] ELSE h[c]
        ELSE IF h[p].lrA = addr THEN [HistWrote(h, c, addr)[p] EXCEPT !.peerw = TRUE]
        ELSE HistWrote(h, c, addr)[p]]

HistSnoopX(h, p, addr) ==
    IF OnBlock(h, p, addr) THEN [h EXCEPT ![p].snoop = TRUE] ELSE h

HistSC(h, c) == IF h[c].lrA # -1 THEN [h EXCEPT ![c].sc = TRUE] ELSE h

HistSwitch(h, c) == IF h[c].lrA # -1 THEN [h EXCEPT ![c].switch = TRUE] ELSE h

---------------------------------------------------------------------------
(* Core: execute and memory stages up to the call into the data cache      *)

NewOp(c, kind, addr) ==
    [NoOp EXCEPT !.kind = kind, !.addr = addr,
                 !.val = IF kind \in {"SW", "SC"} THEN StoreVal(c) ELSE 0]

\* Core._execute / Core._memory for LW: data_cache.load(memd) is called
IssueLW(c, addr) ==
    /\ pc[c] = "ready"
    /\ nins < MaxInstr
    /\ nins' = nins + 1
    /\ op' = [op EXCEPT ![c] = NewOp(c, "LW", addr)]
    /\ pc' = [pc EXCEPT ![c] = "local"]
    /\ UNCHANGED <<mem, lines, fifo, filled, lr_dir, lr, lock, busLock, hist, latest>>
    /\ UNCHANGED notCache

\* Core._execute / Core._memory for SW: data_cache.store(memd, word) is called
IssueSW(c, addr) ==
    /\ pc[c] = "ready"
    /\ nins < MaxInstr
    /\ nins' = nins + 1
    /\ op' = [op EXCEPT ![c] = NewOp(c, "SW", addr)]
    /\ pc' = [pc EXCEPT ![c] = "local"]
    /\ UNCHANGED <<mem, lines, fifo, filled, lr_dir, lr, lock, busLock, hist, latest>>
    /\ UNCHANGED notCache

\* Core._execute for LR: the LR register takes the address x1, then
\* data_cache.load_reserved(memd) is called
ExecLR(c, addr) ==
    /\ pc[c] = "ready"
    /\ lr' = [lr EXCEPT ![c] = addr]
    /\ op' = [op EXCEPT ![c] = NewOp(c, "LR", addr)]
    /\ pc' = [pc EXCEPT ![c] = "local"]
    /\ UNCHANGED <<mem, lines, fifo, filled, lr_dir, lock, busLock, hist, latest>>
    /\ UNCHANGED notCache

\* an LR of a run of at most MaxInstr instructions
IssueLR(c, addr) ==
    /\ nins < MaxInstr
    /\ nins' = nins + 1
    /\ ExecLR(c, addr)

\* a memory stage that hands the ALU result to rd whatever the SC reported
SCResult_Word(success, word) == word

\* Core._memory for SC, after the cache returned: xd is the stored word on
\* success and 0 on failure
SCResult(success, word) == IF success THEN word ELSE 0

\* Core._memory for SC: the cache is called only when the LR register equals
\* the address; otherwise the SC fails at once with xd = 0
ExecSC(c, addr) ==
    /\ pc[c] = "ready"
    /\ IF lr[c] = addr
       THEN /\ op' = [op EXCEPT ![c] = NewOp(c, "SC", addr)]
            /\ pc' = [pc EXCEPT ![c] = "local"]
            /\ hist' = hist
       ELSE /\ op' = [op EXCEPT ![c] = [NewOp(c, "SC", addr) EXCEPT
                                        !.success = FALSE, !.xd = SCResult(FALSE, StoreVal(c))]]
            /\ pc' = [pc EXCEPT ![c] = "wb"]
            /\ hist' = HistSC(hist, c)
    /\ UNCHANGED <<mem, lines, fifo, filled, lr_dir, lr, lock, busLock, latest>>
    /\ UNCHANGED notCache

\* an SC of a run of at most MaxInstr instructions
IssueSC(c, addr) ==
    /\ nins < MaxInstr
    /\ nins' = nins + 1
    /\ ExecSC(c, addr)

\* Core._write_back and the end of Core.step: the instruction retires
WriteBack(c) ==
    /\ pc[c] = "wb"
    /\ pc' = [pc EXCEPT ![c] = "ready"]
    /\ op' = [op EXCEPT ![c] = NoOp]
    /\ UNCHANGED <<mem, lines, fifo, filled, lr_dir, lr, lock, busLock, hist, nins, latest>>
    /\ UNCHANGED notCache

\* a context switch that leaves the LR register as it is
SwitchedLR_Keep(c) == lr

\* Core._context_switch, first step: the LR register is cleared under its lock
SwitchedLR(c) == [lr EXCEPT ![c] = -1]

\* Core._context_switch: the LR register is cleared (the cache's lr_dir is
\* not touched), the PCB is swapped
ContextSwitch(c) ==
    /\ pc[c] = "ready"
    /\ nins < MaxInstr
    /\ nins' = nins + 1
    /\ lr' = SwitchedLR(c)
    /\ hist' = HistSwitch(hist, c)
    /\ UNCHANGED <<mem, lines, fifo, filled, lr_dir, lock, busLock, pc, op, latest>>
    /\ UNCHANGED notCache

---------------------------------------------------------------------------
(* Cache: phase A, under the cache's own lock (_acquire_local ..            *)
(* _release_local, no clock tick in between)                               *)

Line(l, c, addr, w) == l[c][IndexOf(c, addr)][w]

\* the record of the words written, after val is written at addr
Stored(addr, val) == [latest EXCEPT ![BlockOf(addr)][OffsetOf(addr)] = val]

\* a store that drops the reservation whatever block it writes
ClearIfReserved_Always(r, c, addr) == [r EXCEPT ![c] = -1]

\* the reservation after a store to addr
ClearIfReserved(r, c, addr) ==
    IF r[c] = BlockOf(addr) THEN [r EXCEPT ![c] = -1] ELSE r

\* CacheMemAssoc.load, op_local branch
LoadLocal(c) ==
    /\ pc[c] = "local" /\ op[c].kind = "LW"
    /\ lock[c] = NoCore
    /\ LET a == op[c].addr
           t == Find(lines, c, a)
       IN  IF t # -1
           THEN /\ op' = [op EXCEPT ![c].xd = Line(lines, c, a, t).data[OffsetOf(a)]]
                /\ pc' = [pc EXCEPT ![c] = "wb"]
           ELSE /\ op' = [op EXCEPT ![c].hit = FALSE, ![c].op_local = FALSE]
                /\ pc' = [pc EXCEPT ![c] = "bus"]
    /\ UNCHANGED <<mem, lines, fifo, filled, lr_dir, lr, lock, busLock, hist, nins, latest>>
    /\ UNCHANGED notCache

\* CacheMemAssoc.load_reserved, op_local branch
LoadReservedLocal(c) ==
    /\ pc[c] = "local" /\ op[c].kind = "LR"
    /\ lock[c] = NoCore
    /\ LET a == op[c].addr
           t == Find(lines, c, a)
       IN  IF t # -1
           THEN /\ lr_dir' = [lr_dir EXCEPT ![c] = BlockOf(a)]
                /\ op' = [op EXCEPT ![c].xd = Line(lines, c, a, t).data[OffsetOf(a)]]
                /\ pc' = [pc EXCEPT ![c] = "wb"]
                /\ hist' = HistLR(hist, c, a)
           ELSE /\ op' = [op EXCEPT ![c].hit = FALSE, ![c].op_local = FALSE]
                /\ pc' = [pc EXCEPT ![c] = "bus"]
                /\ UNCHANGED <<lr_dir, hist>>
    /\ UNCHANGED <<mem, lines, fifo, filled, lr, lock, busLock, nins, latest>>
    /\ UNCHANGED notCache

\* a phase A that takes every store to the bus
LocalHit_Never(flag) == FALSE

\* store and store_conditional, phase A: the operation ends under the
\* cache's own lock when the line it found is Modified
LocalHit(flag) == flag = FM

\* CacheMemAssoc.store, op_local branch
StoreLocal(c) ==
    /\ pc[c] = "local" /\ op[c].kind = "SW"
    /\ lock[c] = NoCore
    /\ LET a == op[c].addr
           t == Find(lines, c, a)
       IN  IF t # -1
           THEN IF LocalHit(Line(lines, c, a, t).flag)
                THEN /\ lines' = [lines EXCEPT ![c][IndexOf(c, a)][t].data[OffsetOf(a)] = op[c].val]
                     /\ latest' = Stored(a, op[c].val)
                     /\ lr_dir' = ClearIfReserved(lr_dir, c, a)
                     /\ pc' = [pc EXCEPT ![c] = "wb"]
                     /\ hist' = HistStore(hist, c, a)
                     /\ op' = op
                ELSE /\ op' = [op EXCEPT ![c].op_local = FALSE]
                     /\ pc' = [pc EXCEPT ![c] = "bus"]
                     /\ UNCHANGED <<lines, lr_dir, hist, latest>>
           ELSE /\ op' = [op EXCEPT ![c].hit = FALSE, ![c].op_local = FALSE]
                /\ pc' = [pc EXCEPT ![c] = "bus"]
                /\ UNCHANGED <<lines, lr_dir, hist, latest>>
    /\ UNCHANGED <<mem, fifo, filled, lr, lock, busLock, nins>>
    /\ UNCHANGED notCache

\* CacheMemAssoc.store_conditional, op_local branch; on return Core._memory
\* sets xd to the word on success and to 0 on failure
StoreConditionalLocal(c) ==
    /\ pc[c] = "local" /\ op[c].kind = "SC"
    /\ lock[c] = NoCore
    /\ LET a == op[c].addr
           t == Find(lines, c, a)
       IN  IF lr_dir[c] # BlockOf(a)
           THEN /\ op' = [op EXCEPT ![c].success = FALSE, ![c].xd = SCResult(FALSE, op[c].val)]
                /\ pc' = [pc EXCEPT ![c] = "wb"]
                /\ hist' = HistSC(hist, c)
                /\ UNCHANGED <<lines, lr_dir, latest>>
           ELSE IF t # -1
           THEN IF LocalHit(Line(lines, c, a, t).flag)
                THEN /\ lines' = [lines EXCEPT ![c][IndexOf(c, a)][t].data[OffsetOf(a)] = op[c].val]
                     /\ latest' = Stored(a, op[c].val)
                     /\ lr_dir' = [lr_dir EXCEPT ![c] = -1]
                     /\ op' = [op EXCEPT ![c].success = TRUE, ![c].xd = SCResult(TRUE, op[c].val),
                                         ![c].changed = (View(mem, lines') # View(mem, lines))]
                     /\ pc' = [pc EXCEPT ![c] = "wb"]
                     /\ hist' = HistSC(HistWrote(hist, c, a), c)
                ELSE /\ op' = [op EXCEPT ![c].op_local = FALSE]
                     /\ pc' = [pc EXCEPT ![c] = "bus"]
                     /\ UNCHANGED <<lines, lr_dir, hist, latest>>
           ELSE /\ op' = [op EXCEPT ![c].hit = FALSE, ![c].op_local = FALSE]
                /\ pc' = [pc EXCEPT ![c] = "bus"]
                /\ UNCHANGED <<lines, lr_dir, hist, latest>>
    /\ UNCHANGED <<mem, fifo, filled, lr, lock, busLock, nins>>
    /\ UNCHANGED notCache

---------------------------------------------------------------------------
(* Cache: phase B, under the bus lock and the cache's own lock              *)

\* a phase B that goes on without the bus lock
AcquiredBus_Skip(c) == NoCore

\* the holder of the bus lock after bus.lock.acquire(False) succeeded
AcquiredBus(c) == c

\* CacheMemAssoc._acquire_with_bus after _wait_penalty(1): the bus lock,
\* then the cache lock, both by non-blocking tries
AcquireWithBus(c) ==
    /\ pc[c] = "bus"
    /\ busLock = NoCore
    /\ lock[c] = NoCore
    /\ busLock' = AcquiredBus(c)
    /\ lock' = [lock EXCEPT ![c] = c]
    /\ op' = [op EXCEPT ![c] = Paid(op[c], 1)]
    /\ pc' = [pc EXCEPT ![c] = "locked"]
    /\ UNCHANGED <<mem, lines, fifo, filled, lr_dir, lr, hist, nins, latest>>
    /\ UNCHANGED notCache

\* CacheMemAssoc._acquire_with_bus, a turn of the loop that fails: the bus
\* lock (or, with it, the cache lock) is held by the other thread; the core
\* waits a tick and tries again
BusBusy(c) ==
    /\ pc[c] = "bus"
    /\ busLock # NoCore \/ lock[c] # NoCore
    /\ op[c].waited < MaxBusy
    /\ op' = [op EXCEPT ![c] = [Paid(op[c], 1) EXCEPT !.waited = op[c].waited + 1]]
    /\ UNCHANGED <<mem, lines, fifo, filled, lr_dir, lr, lock, busLock, pc, hist, nins, latest>>
    /\ UNCHANGED notCache

\* a release that leaves the cache lock held
ReleasedLock_Keep(c) == lock

\* CacheMemAssoc._release_with_bus
ReleasedLock(c) == [lock EXCEPT ![c] = NoCore]

\* an eviction that drops a Modified victim without the write-back
VictimMem_Skip(c, idx) == mem

\* CacheMemAssoc._find_victim: the way at the set's FIFO pointer; a Modified
\* victim goes to memory through Bus.write_back at its own block address; the
\* pointer advances modulo the associativity; the victim is flagged Invalid
VictimWay(c, idx) == fifo[c][idx]
VictimMem(c, idx) ==
    LET v == lines[c][idx][VictimWay(c, idx)]
    IN  IF v.flag = FM THEN MemSet(mem, v.tag * PPB * BPP, v.data) ELSE mem
\* (a replacement that leaves the pointer where it is)
VictimFifo_Stay(c, idx) == fifo
VictimFifo(c, idx) == [fifo EXCEPT ![c][idx] = (VictimWay(c, idx) + 1) % Assoc(c)]
VictimLines(c, idx) == [lines EXCEPT ![c][idx][VictimWay(c, idx)].flag = FI]

\* the order of the fills of a set: the line _find_victim returns is the line
\* its caller fills before it releases the bus, so it becomes the newest
Without(seq, w) == SelectSeq(seq, LAMBDA x : x # w)
VictimFilled(c, idx) ==
    [filled EXCEPT ![c][idx] = Append(Without(filled[c][idx], VictimWay(c, idx)), VictimWay(c, idx))]

\* a write-back of the victim that costs no cycle
VictimPenalty_Free(c, idx) == 0

\* CacheMemAssoc._find_victim: _wait_penalty(MEMORY_LOAD_PENALTY) after the
\* write-back of a Modified victim
VictimPenalty(c, idx) ==
    IF lines[c][idx][VictimWay(c, idx)].flag = FM THEN MEMORY_LOAD_PENALTY ELSE 0

\* the effect of _find_victim on a miss in phase B, common to the four operations
FindVictim(c) ==
    LET idx == IndexOf(c, op[c].addr)
    IN  /\ mem' = VictimMem(c, idx)
        /\ fifo' = VictimFifo(c, idx)
        /\ filled' = VictimFilled(c, idx)
        /\ lines' = VictimLines(c, idx)
        /\ op' = [op EXCEPT ![c].way = VictimWay(c, idx), ![c].miss = TRUE, ![c].hit = FALSE,
                            ![c].changed = (op[c].changed
                                \/ View(VictimMem(c, idx), VictimLines(c, idx)) # View(mem, lines)),
                            ![c].cyc = op[c].cyc + VictimPenalty(c, idx),
                            ![c].victimM = (lines[c][idx][VictimWay(c, idx)].flag = FM)]
        /\ pc' = [pc EXCEPT ![c] = "snoop"]

\* CacheMemAssoc.load, bus branch up to the call of bus.snoop_shared
LoadBus(c) ==
    /\ pc[c] = "locked" /\ op[c].kind = "LW"
    /\ LET a == op[c].addr
           t == Find(lines, c, a)
       IN  IF t # -1
           THEN /\ op' = [op EXCEPT ![c].xd = Line(lines, c, a, t).data[OffsetOf(a)],
                                    ![c].cyc = op[c].cyc + BUS_DOWNTIME]
                /\ pc' = [pc EXCEPT ![c] = "wb"]
                /\ lock' = ReleasedLock(c)
                /\ busLock' = NoCore
                /\ UNCHANGED <<mem, lines, fifo, filled>>
           ELSE /\ FindVictim(c)
                /\ UNCHANGED <<lock, busLock>>
    /\ UNCHANGED <<lr_dir, lr, hist, nins, latest>>
    /\ UNCHANGED notCache

\* CacheMemAssoc.load_reserved, bus branch up to the call of bus.snoop_shared
LoadReservedBus(c) ==
    /\ pc[c] = "locked" /\ op[c].kind = "LR"
    /\ LET a == op[c].addr
           t == Find(lines, c, a)
       IN  IF t # -1
           THEN /\ lr_dir' = [lr_dir EXCEPT ![c] = BlockOf(a)]
                /\ op' = [op EXCEPT ![c].xd = Line(lines, c, a, t).data[OffsetOf(a)],
                                    ![c].cyc = op[c].cyc + BUS_DOWNTIME]
                /\ pc' = [pc EXCEPT ![c] = "wb"]
                /\ hist' = HistLR(hist, c, a)
                /\ lock' = ReleasedLock(c)
                /\ busLock' = NoCore
                /\ UNCHANGED <<mem, lines, fifo, filled>>
           ELSE /\ FindVictim(c)
                /\ UNCHANGED <<lock, busLock, lr_dir, hist>>
    /\ UNCHANGED <<lr, nins, latest>>
    /\ UNCHANGED notCache

\* a snoop-shared that leaves the peer's Modified line Modified
SnoopSharedFlag_Keep(flag) == flag

\* the peer's Modified line after a snoop-shared hit: Shared
SnoopSharedFlag(flag) == FC

\* Bus.snoop_shared for the requester c: the peer cache is locked
\* (acquire_external), searched (snoop_find) and released; a Modified copy is
\* written to memory and downgraded to Shared; the data come from the peer's
\* copy when it has one and from memory otherwise
SnoopShared(c) ==
    /\ pc[c] = "snoop" /\ op[c].kind \in {"LW", "LR"}
    /\ lock[Peer(c)] = NoCore
    /\ LET p == Peer(c)
           a == op[c].addr
           t == Find(lines, p, a)
           hitM == t # -1 /\ Line(lines, p, a, t).flag = FM
       IN  /\ mem' = IF hitM THEN MemSet(mem, a, Line(lines, p, a, t).data) ELSE mem
           /\ lines' = IF hitM
                       THEN [lines EXCEPT ![p][IndexOf(p, a)][t].flag =
                                              SnoopSharedFlag(Line(lines, p, a, t).flag)]
                       ELSE lines
           /\ op' = [op EXCEPT ![c].mem_b = IF t # -1 THEN Line(lines, p, a, t).data
                                            ELSE mem[BlockOf(a)],
                               ![c].cyc = op[c].cyc + MEMORY_LOAD_PENALTY]
    /\ pc' = [pc EXCEPT ![c] = "fill"]
    /\ UNCHANGED <<fifo, filled, lr_dir, lr, lock, busLock, hist, nins, latest>>
    /\ UNCHANGED notCache

\* a snoop_find that never invalidates the reservation
SnoopFindReserve_Keep(r, p, addr) == r

\* CacheMemAssoc.snoop_find with invalidate_reserve: the peer's reservation
\* on the block is cleared
SnoopFindReserve(r, p, addr) ==
    IF r[p] = BlockOf(addr) THEN [r EXCEPT ![p] = -1] ELSE r

\* a snoop-exclusive that reaches the peer's reservation only through a
\* line the peer still holds
SnoopedReserve_IfHit(c) ==
    IF Find(lines, Peer(c), op[c].addr) # -1
    THEN SnoopFindReserve(lr_dir, Peer(c), op[c].addr)
    ELSE lr_dir

\* Bus.snoop_exclusive calls snoop_find(addr, True) on the peer cache: the
\* reservation is cleared before the lines are searched, hit or miss
SnoopedReserve(c) == SnoopFindReserve(lr_dir, Peer(c), op[c].addr)

\* a snoop-exclusive that leaves the peer's line in its state
SnoopExclusiveFlag_Keep(flag) == flag

\* the peer's line after a snoop-exclusive hit, Modified or Shared: Invalid
SnoopExclusiveFlag(flag) == FI

\* Bus.snoop_exclusive for the requester c: the peer cache is locked, its
\* reservation on the block is cleared, a Modified copy is written to memory
\* and invalidated (its data are returned), a Shared copy is invalidated (the
\* data come from memory)
SnoopExclusive(c) ==
    /\ pc[c] = "snoop" /\ op[c].kind \in {"SW", "SC"}
    /\ lock[Peer(c)] = NoCore
    /\ LET p == Peer(c)
           a == op[c].addr
           t == Find(lines, p, a)
           hitM == t # -1 /\ Line(lines, p, a, t).flag = FM
           m2 == IF hitM THEN MemSet(mem, a, Line(lines, p, a, t).data) ELSE mem
           l2 == IF t # -1
                 THEN [lines EXCEPT ![p][IndexOf(p, a)][t].flag =
                                        SnoopExclusiveFlag(Line(lines, p, a, t).flag)]
                 ELSE lines
       IN  /\ lr_dir' = SnoopedReserve(c)
           /\ mem' = m2
           /\ lines' = l2
           /\ op' = [op EXCEPT ![c].mem_b = IF hitM THEN Line(lines, p, a, t).data
                                            ELSE mem[BlockOf(a)],
                               ![c].changed = (op[c].changed \/ View(m2, l2) # View(mem, lines)),
                               ![c].cyc = op[c].cyc + MEMORY_LOAD_PENALTY]
           /\ hist' = HistSnoopX(hist, p, a)
    /\ pc' = [pc EXCEPT ![c] = "fill"]
    /\ UNCHANGED <<fifo, filled, lr, lock, busLock, nins, latest>>
    /\ UNCHANGED notCache

\* a read miss that tags its victim line without copying the fetched data
FilledShared_NoCopy(c) ==
    [tag |-> BlockOf(op[c].addr), flag |-> FC,
     data |-> lines[c][IndexOf(c, op[c].addr)][op[c].way].data]

\* the line installed by a read miss: the fetched block, Shared
FilledShared(c) == [tag |-> BlockOf(op[c].addr), flag |-> FC, data |-> op[c].mem_b]

\* CacheMemAssoc.load, bus branch after bus.snoop_shared: the victim line
\* takes the block as Shared, the locks are released
LoadFill(c) ==
    /\ pc[c] = "fill" /\ op[c].kind = "LW"
    /\ LET a == op[c].addr
       IN  /\ lines' = [lines EXCEPT ![c][IndexOf(c, a)][op[c].way] = FilledShared(c)]
           /\ op' = [op EXCEPT ![c] = Returned([op[c] EXCEPT !.xd = op[c].mem_b[OffsetOf(a)],
                                                             !.hit = FALSE,
                                                             !.cyc = op[c].cyc + BUS_DOWNTIME])]
    /\ lock' = ReleasedLock(c)
    /\ busLock' = NoCore
    /\ pc' = [pc EXCEPT ![c] = "wb"]
    /\ UNCHANGED <<mem, fifo, filled, lr_dir, lr, hist, nins, latest>>
    /\ UNCHANGED notCache

\* CacheMemAssoc.load_reserved, bus branch after bus.snoop_shared: as load,
\* and the block is reserved
LoadReservedFill(c) ==
    /\ pc[c] = "fill" /\ op[c].kind = "LR"
    /\ LET a == op[c].addr
       IN  /\ lines' = [lines EXCEPT ![c][IndexOf(c, a)][op[c].way] = FilledShared(c)]
           /\ lr_dir' = [lr_dir EXCEPT ![c] = BlockOf(a)]
           /\ op' = [op EXCEPT ![c] = Returned([op[c] EXCEPT !.xd = op[c].mem_b[OffsetOf(a)],
                                                             !.hit = FALSE,
                                                             !.cyc = op[c].cyc + BUS_DOWNTIME])]
           /\ hist' = HistLR(hist, c, a)
    /\ lock' = ReleasedLock(c)
    /\ busLock' = NoCore
    /\ pc' = [pc EXCEPT ![c] = "wb"]
    /\ UNCHANGED <<mem, fifo, filled, lr, nins, latest>>
    /\ UNCHANGED notCache

\* CacheMemAssoc.store, bus branch up to the call of bus.snoop_exclusive.  A
\* line found Modified here (the "unexpected path") is written without a snoop.
StoreBus(c) ==
    /\ pc[c] = "locked" /\ op[c].kind = "SW"
    /\ LET a == op[c].addr
           t == Find(lines, c, a)
       IN  IF t # -1
           THEN IF Line(lines, c, a, t).flag = FM
                THEN /\ lines' = [lines EXCEPT ![c][IndexOf(c, a)][t].data[OffsetOf(a)] = op[c].val]
                     /\ latest' = Stored(a, op[c].val)
                     /\ lr_dir' = ClearIfReserved(lr_dir, c, a)
                     /\ hist' = HistStore(hist, c, a)
                     /\ lock' = ReleasedLock(c)
                     /\ busLock' = NoCore
                     /\ pc' = [pc EXCEPT ![c] = "wb"]
                     /\ op' = [op EXCEPT ![c] = Paid(op[c], BUS_DOWNTIME)]
                     /\ UNCHANGED <<mem, fifo, filled>>
                ELSE /\ op' = [op EXCEPT ![c].way = t, ![c].miss = FALSE]
                     /\ pc' = [pc EXCEPT ![c] = "snoop"]
                     /\ UNCHANGED <<mem, lines, fifo, filled, lr_dir, hist, lock, busLock, latest>>
           ELSE /\ FindVictim(c)
                /\ UNCHANGED <<lr_dir, hist, lock, busLock, latest>>
    /\ UNCHANGED <<lr, nins>>
    /\ UNCHANGED notCache

\* a phase B store that installs the line Modified without writing the word
StoredLine_NoWrite(c, old) ==
    IF op[c].miss
    THEN [tag |-> BlockOf(op[c].addr), flag |-> FM, data |-> op[c].mem_b]
    ELSE [old EXCEPT !.flag = FM]

\* the line a store leaves behind in phase B: on a miss the fetched block
\* with the word applied, on a Shared hit the line's own data with the word
\* applied; Modified in both cases
StoredLine(c, old) ==
    LET a == op[c].addr
    IN  IF op[c].miss
        THEN [tag |-> BlockOf(a), flag |-> FM,
              data |-> [op[c].mem_b EXCEPT ![OffsetOf(a)] = op[c].val]]
        ELSE [old EXCEPT !.data[OffsetOf(a)] = op[c].val, !.flag = FM]

\* CacheMemAssoc.store, bus branch after bus.snoop_exclusive: the word is
\* written, the line becomes Modified, a reservation on the block is cleared,
\* the locks are released
StoreFill(c) ==
    /\ pc[c] = "fill" /\ op[c].kind = "SW"
    /\ LET a == op[c].addr
           idx == IndexOf(c, a)
       IN  /\ lines' = [lines EXCEPT ![c][idx][op[c].way] = StoredLine(c, lines[c][idx][op[c].way])]
           /\ latest' = Stored(a, op[c].val)
           /\ lr_dir' = ClearIfReserved(lr_dir, c, a)
           /\ hist' = HistStore(hist, c, a)
           /\ op' = [op EXCEPT ![c] = Returned([op[c] EXCEPT
                                    !.hit = IF op[c].miss THEN FALSE ELSE op[c].hit,
                                    !.cyc = op[c].cyc + BUS_DOWNTIME])]
    /\ lock' = ReleasedLock(c)
    /\ busLock' = NoCore
    /\ pc' = [pc EXCEPT ![c] = "wb"]
    /\ UNCHANGED <<mem, fifo, filled, lr, nins>>
    /\ UNCHANGED notCache

\* CacheMemAssoc.store_conditional, bus branch up to the call of
\* bus.snoop_exclusive.  A line found Modified here (the "unexpected path")
\* is written, if still reserved, without a snoop.
StoreConditionalBus(c) ==
    /\ pc[c] = "locked" /\ op[c].kind = "SC"
    /\ LET a == op[c].addr
           t == Find(lines, c, a)
           ok == lr_dir[c] = BlockOf(a)
           l2 == IF ok THEN [lines EXCEPT ![c][IndexOf(c, a)][t].data[OffsetOf(a)] = op[c].val]
                 ELSE lines
       IN  IF t # -1
           THEN IF Line(lines, c, a, t).flag = FM
                THEN /\ lines' = l2
                     /\ latest' = IF ok THEN Stored(a, op[c].val) ELSE latest
                     /\ lr_dir' = [lr_dir EXCEPT ![c] = -1]
                     /\ hist' = HistSC(IF ok THEN HistWrote(hist, c, a) ELSE hist, c)
                     /\ op' = [op EXCEPT ![c].success = ok, ![c].xd = SCResult(ok, op[c].val),
                                         ![c].changed = (op[c].changed \/ View(mem, l2) # View(mem, lines)),
                                         ![c].cyc = op[c].cyc + BUS_DOWNTIME]
                     /\ lock' = ReleasedLock(c)
                     /\ busLock' = NoCore
                     /\ pc' = [pc EXCEPT ![c] = "wb"]
                     /\ UNCHANGED <<mem, fifo, filled>>
                ELSE /\ op' = [op EXCEPT ![c].way = t, ![c].miss = FALSE]
                     /\ pc' = [pc EXCEPT ![c] = "snoop"]
                     /\ UNCHANGED <<mem, lines, fifo, filled, lr_dir, hist, lock, busLock, latest>>
           ELSE /\ FindVictim(c)
                /\ UNCHANGED <<lr_dir, hist, lock, busLock, latest>>
    /\ UNCHANGED <<lr, nins>>
    /\ UNCHANGED notCache

\* a conditional store that never commits
CommitAllowed_Never(c) == FALSE

\* a conditional store that checks its reservation in phase A only
CommitAllowed_Always(c) == TRUE

\* whether the conditional store writes its word at commit: only while the
\* cache's reserved block is still the addressed block
CommitAllowed(c) == lr_dir[c] = BlockOf(op[c].addr)

\* a phase B conditional store that writes the word whatever the reservation
CondStoredLine_Always(c, old) ==
    IF op[c].miss
    THEN [tag |-> BlockOf(op[c].addr), flag |-> FM,
          data |-> [op[c].mem_b EXCEPT ![OffsetOf(op[c].addr)] = op[c].val]]
    ELSE [old EXCEPT !.flag = FM, !.data[OffsetOf(op[c].addr)] = op[c].val]

\* the line a conditional store leaves behind in phase B: Modified in every
\* case, with the word applied only when the reservation still stands
CondStoredLine(c, old) ==
    LET a == op[c].addr
        base == IF op[c].miss
                THEN [tag |-> BlockOf(a), flag |-> FM, data |-> op[c].mem_b]
                ELSE [old EXCEPT !.flag = FM]
    IN  IF CommitAllowed(c) THEN [base EXCEPT !.data[OffsetOf(a)] = op[c].val] ELSE base

\* CacheMemAssoc.store_conditional, bus branch after bus.snoop_exclusive; the
\* reservation is consumed; on return Core._memory sets xd
StoreConditionalFill(c) ==
    /\ pc[c] = "fill" /\ op[c].kind = "SC"
    /\ LET a == op[c].addr
           idx == IndexOf(c, a)
           l2 == [lines EXCEPT ![c][idx][op[c].way] = CondStoredLine(c, lines[c][idx][op[c].way])]
       IN  /\ lines' = l2
           /\ latest' = IF CommitAllowed(c) THEN Stored(a, op[c].val) ELSE latest
           /\ lr_dir' = [lr_dir EXCEPT ![c] = -1]
           /\ hist' = HistSC(IF CommitAllowed(c) THEN HistWrote(hist, c, a) ELSE hist, c)
           /\ op' = [op EXCEPT ![c] = Returned([op[c] EXCEPT
                                    !.success = CommitAllowed(c),
                                    !.xd = SCResult(CommitAllowed(c), op[c].val),
                                    !.hit = IF op[c].miss THEN FALSE ELSE op[c].hit,
                                    !.changed = (op[c].changed \/ View(mem, l2) # View(mem, lines)),
                                    !.cyc = op[c].cyc + BUS_DOWNTIME])]
    /\ lock' = ReleasedLock(c)
    /\ busLock' = NoCore
    /\ pc' = [pc EXCEPT ![c] = "wb"]
    /\ UNCHANGED <<mem, fifo, filled, lr, nins>>
    /\ UNCHANGED notCache

---------------------------------------------------------------------------
\* the steps inside the data cache and the bus, and the write-back stage
CacheStep(c) ==
    \/ LoadLocal(c)
    \/ LoadReservedLocal(c)
    \/ StoreLocal(c)
    \/ StoreConditionalLocal(c)
    \/ AcquireWithBus(c)
    \/ LoadBus(c)
    \/ LoadReservedBus(c)
    \/ StoreBus(c)
    \/ StoreConditionalBus(c)
    \/ SnoopShared(c)
    \/ SnoopExclusive(c)
    \/ LoadFill(c)
    \/ LoadReservedFill(c)
    \/ StoreFill(c)
    \/ StoreConditionalFill(c)
    \/ WriteBack(c)

Next ==
    \E c \in Cores :
        \/ \E addr \in Addrs : IssueLW(c, addr)
        \/ \E addr \in Addrs : IssueSW(c, addr)
        \/ \E addr \in Addrs : IssueLR(c, addr)
        \/ \E addr \in Addrs : IssueSC(c, addr)
        \/ ContextSwitch(c)
        \/ CacheStep(c)
        \/ BusBusy(c)

Spec == Init /\ [][Next]_vars

\* Read-modify-write programs: each core runs one LR and then one SC, at
\* addresses of its choice; next to them the cores run at most MaxExtra
\* plain loads, stores and context switches (nins counts these).
MaxExtra == 1

\* the LR of core c's read-modify-write
RmwLR(c, addr) ==
    /\ hist[c].lrA = -1
    /\ ExecLR(c, addr)
    /\ UNCHANGED nins

\* the SC of core c's read-modify-write, after its LR
RmwSC(c, addr) ==
    /\ hist[c].lrA # -1 /\ ~hist[c].sc
    /\ ExecSC(c, addr)
    /\ UNCHANGED nins

\* the instructions around the read-modify-write
RmwLW(c, addr) == nins < MaxExtra /\ IssueLW(c, addr)
RmwSW(c, addr) == nins < MaxExtra /\ IssueSW(c, addr)
RmwSwitch(c) == nins < MaxExtra /\ ContextSwitch(c)

RmwNext ==
    \E c \in Cores :
        \/ \E addr \in Addrs : RmwLR(c, addr)
        \/ \E addr \in Addrs : RmwSC(c, addr)
        \/ \E addr \in Addrs : RmwLW(c, addr)
        \/ \E addr \in Addrs : RmwSW(c, addr)
        \/ RmwSwitch(c)
        \/ CacheStep(c)
        \/ BusBusy(c)

RmwSpec == Init /\ [][RmwNext]_vars

\* the two core threads keep being scheduled: a thread whose next step
\* stays possible takes it (a try-lock that fails costs a clock tick and is
\* tried again, _acquire_local and _acquire_with_bus)
LiveSpec == Init /\ [][Next]_vars /\ \A c \in Cores : WF_vars(CacheStep(c))

---------------------------------------------------------------------------
(* Instruction codec (riscv/isa.py) and the loader's round-trip check      *)
(* (riscv/util.py, read_hilo)                                              *)

\* a 32-bit word is the function from bit position (0 the least
\* significant) to bit; the masks are written by their hexadecimal digits,
\* most significant first, as in the source
BitPos == 0 .. 31
FromHex(h) == [i \in BitPos |-> (h[8 - (i \div 4)] \div (2 ^ (i % 4))) % 2]

M_OPCD == FromHex(<<0, 0, 0, 0, 0, 0, 15, 15>>)
M_ARG1 == FromHex(<<0, 0, 0, 0, 1, 15, 0, 0>>)
M_ARG2 == FromHex(<<0, 0, 0, 3, 14, 0, 0, 0>>)
M_ARG3 == FromHex(<<15, 15, 15, 12, 0, 0, 0, 0>>)

BS_OPCD == 0
BS_ARG1 == 8
BS_ARG2 == 13
BS_ARG3 == 18
INS_LENGTH == 32

\* the low 32 bits of a Python integer of either sign (two's complement of
\* unbounded width), for |x| below 2^30
IntBits(x) == [i \in BitPos |-> IF i <= 30 THEN (x \div (2 ^ i)) % 2
                                 ELSE IF x < 0 THEN 1 ELSE 0]

\* the non-negative integer a word with bit 31 clear stands for
RECURSIVE BitsValue(_, _)
BitsValue(w, i) == IF i > 30 THEN 0 ELSE w[i] * (2 ^ i) + BitsValue(w, i + 1)
ToInt(w) == BitsValue(w, 0)

\* Python's &, |, <<, >> as far as the low 32 bits go; every use below is
\* followed by, or follows, an & with a 32-bit mask
BitAnd(a, b) == [i \in BitPos |-> a[i] * b[i]]
BitOr(a, b) == [i \in BitPos |-> IF a[i] = 1 \/ b[i] = 1 THEN 1 ELSE 0]
ShiftL(a, n) == [i \in BitPos |-> IF i >= n THEN a[i - n] ELSE 0]
ShiftR(a, n) == [i \in BitPos |-> IF i + n <= 31 THEN a[i + n] ELSE 0]

dec_opcode(instruction) == ToInt(ShiftR(BitAnd(instruction, M_OPCD), BS_OPCD))
dec_arg1(instruction) == ToInt(ShiftR(BitAnd(instruction, M_ARG1), BS_ARG1))
dec_arg2(instruction) == ToInt(ShiftR(BitAnd(instruction, M_ARG2), BS_ARG2))

\* a decoder that returns the third argument's field as it is
dec_arg3_Raw(instruction) == ToInt(ShiftR(BitAnd(instruction, M_ARG3), BS_ARG3))

\* isa.dec_arg3: the field is sign-extended from its top bit
dec_arg3(instruction) ==
    LET data_raw == ToInt(ShiftR(BitAnd(instruction, M_ARG3), BS_ARG3))
        arg_bits == INS_LENGTH - BS_ARG3
    IN  IF (data_raw \div (2 ^ (arg_bits - 1))) % 2 = 1
        THEN 0 - (2 ^ arg_bits - data_raw)
        ELSE data_raw

decode(instruction) ==
    <<dec_opcode(instruction), dec_arg1(instruction),
      dec_arg2(instruction), dec_arg3(instruction)>>

\* the four assertions at the top of isa.encode
EncodeAsserts(opcode, arg1, arg2, arg3) ==
    LET arg3_bits == INS_LENGTH - BS_ARG3
    IN  /\ 0 <= opcode /\ opcode < 2 ^ 8
        /\ 0 <= arg1 /\ arg1 < 2 ^ 5
        /\ 0 <= arg2 /\ arg2 < 2 ^ 5
        /\ 0 - 2 ^ (arg3_bits - 1) <= arg3 /\ arg3 < 2 ^ (arg3_bits - 1)

\* isa.encode past its assertions: the four masked fields or-ed together
encode(opcode, arg1, arg2, arg3) ==
    LET i1 == BitOr(IntBits(0), BitAnd(IntBits(opcode), M_OPCD))
        i2 == BitOr(i1, BitAnd(ShiftL(IntBits(arg1), BS_ARG1), M_ARG1))
        i3 == BitOr(i2, BitAnd(ShiftL(IntBits(arg2), BS_ARG2), M_ARG2))
    IN  BitOr(i3, BitAnd(ShiftL(IntBits(arg3), BS_ARG3), M_ARG3))

\* the program lines drawn: every opcode and every register number with the
\* other fields fixed, the immediates around zero and at both ends of the
\* 14-bit range, and the corners of the four fields together, the immediates one
\* step outside the 14-bit range included
LineOpcodes == {0, 19, 52, 128, 255}
LineArg1s == {0, 1, 16, 31}
LineArg2s == {0, 10, 31}
LineArg3s == {-8193, -8192, -8191, -1, 0, 1, 4096, 8191, 8192}
ProgramLines ==
    (LineOpcodes \X LineArg1s \X LineArg2s \X LineArg3s)
        \cup {<<o, 1, 10, -1>> : o \in 0 .. 255}
        \cup {<<19, a1, a2, 1>> : a1 \in 0 .. 31, a2 \in 0 .. 31}
        \cup {<<19, 31, 0, a3>> : a3 \in ((0 - 8192) .. (0 - 7937)) \cup ((0 - 256) .. 255) \cup (7936 .. 8191)}

\* read_hilo: the next line of the file is split into four numbers
ReadLine(l) ==
    /\ hpc = "idle"
    /\ ins' = l
    /\ hpc' = "read"
    /\ UNCHANGED <<encoded_ins, decoded>>
    /\ UNCHANGED notCodec

\* read_hilo: encode(opcode, arg1, arg2, arg3) returns
Encode ==
    /\ hpc = "read"
    /\ EncodeAsserts(ins[1], ins[2], ins[3], ins[4])
    /\ encoded_ins' = encode(ins[1], ins[2], ins[3], ins[4])
    /\ hpc' = "encoded"
    /\ UNCHANGED <<ins, decoded>>
    /\ UNCHANGED notCodec

\* read_hilo: encode raises AssertionError on a number out of range
EncodeRaises ==
    /\ hpc = "read"
    /\ ~EncodeAsserts(ins[1], ins[2], ins[3], ins[4])
    /\ hpc' = "error"
    /\ UNCHANGED <<ins, encoded_ins, decoded>>
    /\ UNCHANGED notCodec

\* read_hilo: assert ins == [v for v in decode(encoded_ins)]
Decode ==
    /\ hpc = "encoded"
    /\ decoded' = decode(encoded_ins)
    /\ hpc' = IF ins = decoded' THEN "checked" ELSE "error"
    /\ UNCHANGED <<ins, encoded_ins>>
    /\ UNCHANGED notCodec

\* read_hilo: instructions.append(encoded_ins), and on to the next line
AppendLine ==
    /\ hpc = "checked"
    /\ ins' = <<>>
    /\ encoded_ins' = <<>>
    /\ decoded' = <<>>
    /\ hpc' = "idle"
    /\ UNCHANGED notCodec

CodecNext ==
    \/ \E l \in ProgramLines : ReadLine(l)
    \/ Encode
    \/ EncodeRaises
    \/ Decode
    \/ AppendLine

CodecSpec == Init /\ [][CodecNext]_vars

---------------------------------------------------------------------------
(* Threads, scheduler and clock barrier (riscv/core.py, riscv/hilo.py,     *)
(* riscv/util.py, sim.py).  The instructions kept are ADDI and FIN; the    *)
(* cycles an instruction spends inside the caches (miss penalties, lock    *)
(* retries) are clock ticks taken before it completes.                     *)

\* Scheduler.INIT_QUANTUM (25 in the program)
Quantum == 2
\* the largest number of programs loaded
MaxPcbs == 4
\* the largest number of penalty ticks in a run
MaxStall == 1
\* inst_addr in run_tmain, and the default starting_addr of a Pcb
InstBase == 384

ADDI(rd, rs, imm) == [opc |-> "ADDI", rd |-> rd, rs |-> rs, imm |-> imm]
FIN == [opc |-> "FIN", rd |-> 0, rs |-> 0, imm |-> 0]

\* the programs drawn: one shorter than a quantum, one longer than a quantum
\* whose registers depend on each other, one whose first instruction has r0
\* as its destination
ProgShort == <<ADDI(1, 0, 5), FIN>>
ProgLong == <<ADDI(1, 0, 1), ADDI(2, 1, 2), ADDI(1, 2, 3), FIN>>
ProgZero == <<ADDI(0, 0, 1), FIN>>
Programs == {ProgShort, ProgLong, ProgZero}

\* a PCB put on the ready queue with one step more than the quantum
NewPcb_Longer(addr) ==
    [status |-> READY, quantum |-> Quantum + 1, pc |-> addr,
     registers |-> [i \in Regs |-> 0], ticks |-> 0]

\* Pcb.__init__ followed by Scheduler.put_ready
NewPcb(addr) ==
    [status |-> READY, quantum |-> Quantum, pc |-> addr,
     registers |-> [i \in Regs |-> 0], ticks |-> 0]

\* cargar_hilos: the programs go to instruction memory one after the other
\* from InstBase on, the pid-th PCB starts at the address of its program
RECURSIVE Concat(_)
Concat(ps) == IF ps = <<>> THEN <<>> ELSE Head(ps) \o Concat(Tail(ps))

RECURSIVE StartAddr(_, _)
StartAddr(ps, pid) ==
    IF pid = 0 THEN InstBase ELSE StartAddr(Tail(ps), pid - 1) + Len(Head(ps)) * BPP

cargar_hilos(ps) ==
    /\ inst_mem = Concat(ps)
    /\ loaded = Len(ps)
    /\ pcbs = [pid \in 0 .. (Len(ps) - 1) |-> NewPcb(StartAddr(ps, pid))]
    /\ ready_queue = [i \in 1 .. Len(ps) |-> i - 1]
    /\ finished_queue = <<>>

\* run_tmain: one to MaxPcbs programs, two core threads and the driver on a
\* barrier of three; SingleCoreTestCase: one program, core 0 run by the test
\* itself on a barrier of one
SchedInit ==
    /\ CacheInit /\ CodecIdle /\ CoresInit /\ RamInit /\ LockInit
    /\ \/ /\ harness = "sim"
          /\ \E n \in 1 .. MaxPcbs : \E ps \in [1 .. n -> Programs] : cargar_hilos(ps)
          /\ tpc = [t \in Threads |-> IF t = Main THEN "poll" ELSE "start"]
       \/ /\ harness = "test"
          /\ \E ps \in [1 .. 1 -> Programs] : cargar_hilos(ps)
          /\ tpc = [t \in Threads |-> IF t = 0 THEN "start" ELSE "none"]

\* GlobalVars.__init__: Barrier(parties=num_cpus)
Parties == IF harness = "test" THEN 1 ELSE 3

\* Register.data (getter): the zero register reads 0
RegRead(regs, i) == IF i = 0 THEN 0 ELSE regs[i]

\* Core._fetch: the instruction at the PC
Fetch(addr) == inst_mem[((addr - InstBase) \div BPP) + 1]

\* a clock tick that counts two cycles
Ticked_Twice(c) == [clock EXCEPT ![c] = clock[c] + 2]

\* Core.clock_tick, first statement: self.clock += 1
Ticked(c) == [clock EXCEPT ![c] = clock[c] + 1]

\* Barrier.wait, first half: the thread is counted and blocks
Arrive(t) == n_waiting' = n_waiting \cup {t}

\* a ready queue that loses the PCB put on it
PutReady_Drop(q, p) == q

\* Scheduler.put_ready / put_finished: Queue.put
PutReady(q, p) == Append(q, p)
PutFinished(q, p) == Append(q, p)

\* a context save that stores the registers of a fresh PCB
SavedRegisters_Zero(c) == [i \in Regs |-> 0]

\* Core._pcb_out: [r.data for r in self.registers]
SavedRegisters(c) == [i \in Regs |-> RegRead(registers[c], i)]

\* Core._pcb_in: next_ready_thread() returns a PCB, whose context is copied
\* to the core (r1 and up, and the PC), or raises Empty, and the core is IDL
PcbInTake(c) ==
    IF ready_queue # <<>>
    THEN LET p == Head(ready_queue)
         IN  /\ ready_queue' = Tail(ready_queue)
             /\ core_pcb' = [core_pcb EXCEPT ![c] = p]
             /\ pcbs' = [pcbs EXCEPT ![p].status = RUNNING]
             /\ pcb_start_clock' = [pcb_start_clock EXCEPT ![c] = clock[c]]
             /\ pc_reg' = [pc_reg EXCEPT ![c] = pcbs[p].pc]
             /\ registers' = [registers EXCEPT ![c] =
                                [i \in Regs |-> IF i = 0 THEN registers[c][0]
                                                ELSE pcbs[p].registers[i]]]
             /\ state' = [state EXCEPT ![c] = RUN]
             /\ slice' = [slice EXCEPT ![c] = [steps |-> 0, stalls |-> 0]]
    ELSE /\ state' = [state EXCEPT ![c] = IDL]
         /\ UNCHANGED <<ready_queue, core_pcb, pcbs, pcb_start_clock, pc_reg, registers, slice>>

\* Core.run, up to the loop: the first _pcb_in and the assertion that a PCB
\* was taken; the AssertionError ends the thread
RunStart(c) ==
    /\ tpc[c] = "start"
    /\ PcbInTake(c)
    /\ tpc' = [tpc EXCEPT ![c] = IF core_pcb'[c] # NoPcb THEN "loop" ELSE "dead"]
    /\ UNCHANGED <<harness, inst_mem, loaded, finished_queue, clock, done, n_waiting, nstall>>
    /\ UNCHANGED notSched

\* a step that leaves the quantum as it is
Spend_Keep(q) == q

\* Core.step: self.__pcb.quantum -= 1
Spend(q) == q - 1

\* a core that steps whatever the quantum
MayStep_Always(c) == TRUE

\* Core.run, the test of the loop body: if self.__pcb.quantum > 0: step
MayStep(c) == pcbs[core_pcb[c]].quantum > 0

\* the instruction at the core's PC writes its destination register
\* (Core._write_back, the ADDI case)
WritesRd(c) == Fetch(pc_reg[c]).opc = "ADDI"

\* Core.step for an instruction that completes: fetch (PC + 4), execute,
\* write back, the quantum is counted down (FIN: the PCB is FINISHED and the
\* quantum is 0), then clock_tick
Step(c) ==
    /\ tpc[c] = "loop"
    /\ state[c] = RUN
    /\ MayStep(c)
    /\ LET i == Fetch(pc_reg[c])
           p == core_pcb[c]
       IN  /\ ~(WritesRd(c) /\ i.rd = 0)
           /\ pc_reg' = [pc_reg EXCEPT ![c] = pc_reg[c] + BPP]
           /\ IF i.opc = "FIN"
              THEN /\ pcbs' = [pcbs EXCEPT ![p].status = FINISHED, ![p].quantum = 0]
                   /\ registers' = registers
              ELSE /\ pcbs' = [pcbs EXCEPT ![p].quantum = Spend(pcbs[p].quantum)]
                   /\ registers' = [registers EXCEPT ![c][i.rd] =
                                        RegRead(registers[c], i.rs) + i.imm]
    /\ clock' = Ticked(c)
    /\ slice' = [slice EXCEPT ![c].steps = slice[c].steps + 1]
    /\ Arrive(c)
    /\ tpc' = [tpc EXCEPT ![c] = "tick_run"]
    /\ UNCHANGED <<harness, inst_mem, loaded, ready_queue, finished_queue, core_pcb,
                   state, pcb_start_clock, done, nstall>>
    /\ UNCHANGED notSched

\* Core.step for an instruction whose destination is r0: the setter of the
\* zero register raises, the exception leaves step and run and ends the
\* thread (the PC is already advanced, the quantum and the clock are not)
StepRaises(c) ==
    /\ tpc[c] = "loop"
    /\ state[c] = RUN
    /\ MayStep(c)
    /\ WritesRd(c) /\ Fetch(pc_reg[c]).rd = 0
    /\ pc_reg' = [pc_reg EXCEPT ![c] = pc_reg[c] + BPP]
    /\ tpc' = [tpc EXCEPT ![c] = "dead"]
    /\ UNCHANGED <<harness, inst_mem, loaded, ready_queue, finished_queue, pcbs, core_pcb,
                   state, clock, pcb_start_clock, registers, done, n_waiting, nstall, slice>>
    /\ UNCHANGED notSched

\* a clock tick inside an instruction: CacheMemAssoc._wait_penalty, or the
\* tick after a failed try-lock
StallTick(c) ==
    /\ tpc[c] = "loop"
    /\ state[c] = RUN
    /\ MayStep(c)
    /\ nstall < MaxStall
    /\ nstall' = nstall + 1
    /\ slice' = [slice EXCEPT ![c].stalls = slice[c].stalls + 1]
    /\ clock' = Ticked(c)
    /\ Arrive(c)
    /\ tpc' = [tpc EXCEPT ![c] = "tick_run"]
    /\ UNCHANGED <<harness, inst_mem, loaded, ready_queue, finished_queue, pcbs, core_pcb,
                   state, pcb_start_clock, registers, pc_reg, done>>
    /\ UNCHANGED notSched

\* a context switch that requeues the PCB without making it READY
Requeued_Running(saved) == [saved EXCEPT !.quantum = Quantum]

\* Core._pcb_out, the PCB that is not finished: status READY, and put_ready
\* gives it a new quantum
Requeued(saved) == [saved EXCEPT !.status = READY, !.quantum = Quantum]

\* Core._context_switch, first half (_pcb_out), taken by Core.run when the
\* quantum is not positive: the ticks, the PC and the registers go to the
\* PCB, which goes to the finished queue or, READY with a new quantum, to
\* the ready queue
PcbOut(c) ==
    /\ tpc[c] = "loop"
    /\ state[c] = RUN
    /\ ~MayStep(c)
    /\ LET p == core_pcb[c]
           saved == [pcbs[p] EXCEPT !.ticks = pcbs[p].ticks + (clock[c] - pcb_start_clock[c]),
                                    !.pc = pc_reg[c],
                                    !.registers = SavedRegisters(c)]
       IN  IF pcbs[p].status = FINISHED
           THEN /\ pcbs' = [pcbs EXCEPT ![p] = saved]
                /\ finished_queue' = PutFinished(finished_queue, p)
                /\ ready_queue' = ready_queue
           ELSE /\ pcbs' = [pcbs EXCEPT ![p] = Requeued(saved)]
                /\ ready_queue' = PutReady(ready_queue, p)
                /\ finished_queue' = finished_queue
    /\ core_pcb' = [core_pcb EXCEPT ![c] = NoPcb]
    /\ tpc' = [tpc EXCEPT ![c] = "switch"]
    /\ UNCHANGED <<harness, inst_mem, loaded, state, clock, pcb_start_clock, registers,
                   pc_reg, done, n_waiting, nstall, slice>>
    /\ UNCHANGED notSched

\* Core._context_switch, second half: _pcb_in, then clock_tick
PcbIn(c) ==
    /\ tpc[c] = "switch"
    /\ PcbInTake(c)
    /\ clock' = Ticked(c)
    /\ Arrive(c)
    /\ tpc' = [tpc EXCEPT ![c] = "tick_run"]
    /\ UNCHANGED <<harness, inst_mem, loaded, finished_queue, done, nstall>>
    /\ UNCHANGED notSched

\* Core.run returns (the state is not RUN); run_tcpu goes on to its idle
\* loop, the test goes on to look at the registers
LeaveRun(c) ==
    /\ tpc[c] = "loop"
    /\ state[c] # RUN
    /\ tpc' = [tpc EXCEPT ![c] = IF harness = "test" THEN "exit" ELSE "idle"]
    /\ UNCHANGED <<harness, inst_mem, loaded, ready_queue, finished_queue, pcbs, core_pcb,
                   state, clock, pcb_start_clock, registers, pc_reg, done, n_waiting, nstall, slice>>
    /\ UNCHANGED notSched

\* run_tcpu: while not done: cpu.iddle(), which waits at the barrier and
\* leaves the clock alone
Iddle(c) ==
    /\ tpc[c] = "idle"
    /\ ~done
    /\ Arrive(c)
    /\ tpc' = [tpc EXCEPT ![c] = "tick_idle"]
    /\ UNCHANGED <<harness, inst_mem, loaded, ready_queue, finished_queue, pcbs, core_pcb,
                   state, clock, pcb_start_clock, registers, pc_reg, done, nstall, slice>>
    /\ UNCHANGED notSched

\* run_tcpu: the idle loop ends, the thread returns
IdleExit(c) ==
    /\ tpc[c] = "idle"
    /\ done
    /\ tpc' = [tpc EXCEPT ![c] = "exit"]
    /\ UNCHANGED <<harness, inst_mem, loaded, ready_queue, finished_queue, pcbs, core_pcb,
                   state, clock, pcb_start_clock, registers, pc_reg, done, n_waiting, nstall, slice>>
    /\ UNCHANGED notSched

\* a driver that ends the simulation when one core is IDL
BothIdle_Either == state[0] = IDL \/ state[1] = IDL

\* run_tmain: core0.state == Core.IDL and core1.state == Core.IDL
BothIdle == state[0] = IDL /\ state[1] = IDL

\* run_tmain, one turn of the driver's loop: it sleeps until two threads
\* wait at the barrier, sets done when both cores are IDL, and waits itself
DriverCycle ==
    /\ tpc[Main] = "poll"
    /\ ~done
    /\ Cardinality(n_waiting) >= 2
    /\ done' = BothIdle
    /\ Arrive(Main)
    /\ tpc' = [tpc EXCEPT ![Main] = "tick_main"]
    /\ UNCHANGED <<harness, inst_mem, loaded, ready_queue, finished_queue, pcbs, core_pcb,
                   state, clock, pcb_start_clock, registers, pc_reg, nstall, slice>>
    /\ UNCHANGED notSched

\* run_tmain: the driver's loop ends on done
DriverLeave ==
    /\ tpc[Main] = "poll"
    /\ done
    /\ tpc' = [tpc EXCEPT ![Main] = "join"]
    /\ UNCHANGED <<harness, inst_mem, loaded, ready_queue, finished_queue, pcbs, core_pcb,
                   state, clock, pcb_start_clock, registers, pc_reg, done, n_waiting, nstall, slice>>
    /\ UNCHANGED notSched

\* run_tmain: t_cpu0.join(); t_cpu1.join()
DriverJoin ==
    /\ tpc[Main] = "join"
    /\ \A c \in Cores : tpc[c] \in {"exit", "dead"}
    /\ tpc' = [tpc EXCEPT ![Main] = "end"]
    /\ UNCHANGED <<harness, inst_mem, loaded, ready_queue, finished_queue, pcbs, core_pcb,
                   state, clock, pcb_start_clock, registers, pc_reg, done, n_waiting, nstall, slice>>
    /\ UNCHANGED notSched

\* run_tmain, after the joins: one finished_queue.get_nowait() per loaded
\* program; a get from the empty queue raises Empty and ends the driver
DriverReport ==
    /\ tpc[Main] = "end"
    /\ IF Len(finished_queue) >= loaded
       THEN /\ finished_queue' = SubSeq(finished_queue, loaded + 1, Len(finished_queue))
            /\ tpc' = [tpc EXCEPT ![Main] = "reported"]
       ELSE /\ finished_queue' = <<>>
            /\ tpc' = [tpc EXCEPT ![Main] = "dead"]
    /\ UNCHANGED <<harness, inst_mem, loaded, ready_queue, pcbs, core_pcb, state, clock,
                   pcb_start_clock, registers, pc_reg, done, n_waiting, nstall, slice>>
    /\ UNCHANGED notSched

\* where a thread goes on when wait() returns
AfterWait(pos) ==
    IF pos = "tick_run" THEN "loop"
    ELSE IF pos = "tick_idle" THEN "idle"
    ELSE "poll"

\* Barrier.wait, second half: the last of the parties has arrived and every
\* waiting thread is released
BarrierRelease ==
    /\ n_waiting # {}
    /\ Cardinality(n_waiting) = Parties
    /\ n_waiting' = {}
    /\ tpc' = [t \in Threads |-> IF t \in n_waiting THEN AfterWait(tpc[t]) ELSE tpc[t]]
    /\ UNCHANGED <<harness, inst_mem, loaded, ready_queue, finished_queue, pcbs, core_pcb,
                   state, clock, pcb_start_clock, registers, pc_reg, done, nstall, slice>>
    /\ UNCHANGED notSched

\* the steps of core thread c
CoreThread(c) ==
    \/ RunStart(c)
    \/ Step(c)
    \/ StepRaises(c)
    \/ StallTick(c)
    \/ PcbOut(c)
    \/ PcbIn(c)
    \/ LeaveRun(c)
    \/ Iddle(c)
    \/ IdleExit(c)

\* the steps of the driver thread
Driver ==
    \/ DriverCycle
    \/ DriverLeave
    \/ DriverJoin
    \/ DriverReport

SchedNext ==
    \/ \E c \in Cores : CoreThread(c)
    \/ Driver
    \/ BarrierRelease

SchedSpec == SchedInit /\ [][SchedNext]_vars

\* every thread that can take a step takes one, and a full barrier releases
FairSchedSpec ==
    /\ SchedInit /\ [][SchedNext]_vars
    /\ \A c \in Cores : WF_vars(CoreThread(c))
    /\ WF_vars(Driver)
    /\ WF_vars(BarrierRelease)

---------------------------------------------------------------------------
(* Main memory under bulk load (riscv/memory.py, RamMemory.load, get,      *)
(* _find), as the instruction memory that starts at InstBase               *)

\* the largest number of words in one load, and of loads in a run
MaxWords == 3
MaxLoads == 2

\* RamMemory.__start_addr and __end_addr of the memory
RamStart == InstBase
RamEnd == RamStart + NumMemBlocks * PPB * BPP

\* the word-aligned addresses of the memory
RamAddrs == {RamStart + k * BPP : k \in 0 .. (NumMemBlocks * PPB - 1)}

\* the word lists drawn: the i-th word of a list is its base plus i
LoadData == {[i \in 1 .. n |-> base + i] : n \in 1 .. MaxWords, base \in {10, 20}}

\* a load whose position stays in the block at the end of a block
NextPos_NoCarry(bn, off) == <<bn, (off + 1) % PPB>>

\* RamMemory.load, the end of the loop body: the next word offset, and the
\* next block when the offset reaches the words per block
NextPos(bn, off) == IF off + 1 >= PPB THEN <<bn + 1, 0>> ELSE <<bn, off + 1>>

\* RamMemory.load, the loop: datum by datum from block bn, offset off; the
\* access to a block past the last one raises IndexError and ends the loop,
\* the words written so far stay
RECURSIVE LoadLoop(_, _, _, _)
LoadLoop(blocks, bn, off, data) ==
    IF data = <<>> THEN [blocks |-> blocks, raised |-> FALSE]
    ELSE IF bn \notin DOMAIN blocks THEN [blocks |-> blocks, raised |-> TRUE]
    ELSE LoadLoop([blocks EXCEPT ![bn][off] = Head(data)],
                  NextPos(bn, off)[1], NextPos(bn, off)[2], Tail(data))

\* RamMemory.load(addr, data)
RamLoad(addr, data) ==
    /\ nloads < MaxLoads
    /\ nloads' = nloads + 1
    /\ LET bn_i == (addr - RamStart) \div (PPB * BPP)
           off_i == ((addr - RamStart) % (PPB * BPP)) \div BPP
           r == LoadLoop(ram, bn_i, off_i, data)
       IN  /\ ram' = r.blocks
           /\ ld' = [addr |-> addr, data |-> data, before |-> ram, raised |-> r.raised]
    /\ UNCHANGED notRam

\* RamMemory._find / get: the number of the block that contains addr
RamFind(addr) == (addr - RamStart) \div (PPB * BPP)

\* the word of block list blocks at address addr: get(addr).data at the
\* address's word offset in its block
RamWord(blocks, addr) ==
    blocks[RamFind(addr)][((addr - RamStart) - RamFind(addr) * PPB * BPP) \div BPP]

RamNext == \E addr \in RamAddrs : \E data \in LoadData : RamLoad(addr, data)

RamSpec == Init /\ [][RamNext]_vars

---------------------------------------------------------------------------
(* The locks of the data caches and of the bus, try by try and tick by     *)
(* tick (riscv/memory.py: _acquire_local, _acquire_with_bus,               *)
(* acquire_external, the release functions, _wait_penalty; the regions of  *)
(* load, store, load_reserved and store_conditional; Bus.snoop_shared and  *)
(* Bus.snoop_exclusive).  What a region reads and writes is kept only as   *)
(* the fact that it touches a cache or memory.                             *)

\* the largest number of cache operations in a run
MaxOps == 3

\* the largest number of cycles of one penalty that are waited out tick by
\* tick: a longer penalty is cut to this many
MaxPenalty == 2
Cut(n) == IF n > MaxPenalty THEN MaxPenalty ELSE n

\* the access recorded in ev: thread by does what to cache k (for a write to
\* memory the cache is the requester's own), with the holders of that
\* cache's lock, of the bus lock and of the requester's own cache lock then
Ev(what, by, k) ==
    [what |-> what, by |-> by, cache |-> k, holder |-> cache_lock[k],
     bus |-> bus_lock, own |-> cache_lock[by]]

\* Core.clock_tick: the clock goes up by one and the thread waits at the
\* barrier; it goes on at position next
ClockTick(c, next) ==
    /\ lpc' = [lpc EXCEPT ![c] = "tick"]
    /\ after' = [after EXCEPT ![c] = next]
    /\ cyc' = [cyc EXCEPT ![c] = cyc[c] + 1]
    /\ waiting' = waiting \cup {c}

\* the thread goes on to position next without a tick
Goto(c, next) ==
    /\ lpc' = [lpc EXCEPT ![c] = next]
    /\ UNCHANGED <<after, cyc, waiting>>

\* a failed try that starts again at once
Retry_Spin(c, pos) ==
    /\ tries' = [tries EXCEPT ![c] = tries[c] + 1]
    /\ Goto(c, pos)

\* the end of a turn of the loops of _acquire_local and _acquire_with_bus
\* after a failed try: waiting_core.clock_tick(), then the next turn
Retry(c, pos) ==
    /\ tries' = [tries EXCEPT ![c] = tries[c] + 1]
    /\ ClockTick(c, pos)

\* Core._memory calls load, store, load_reserved or store_conditional of
\* the data cache
OpStart(c) ==
    /\ lpc[c] = "ready"
    /\ nops < MaxOps
    /\ nops' = nops + 1
    /\ cyc' = [cyc EXCEPT ![c] = 0]
    /\ tries' = [tries EXCEPT ![c] = 0]
    /\ lpc' = [lpc EXCEPT ![c] = "a_try"]
    /\ ev' = NoEv
    /\ UNCHANGED <<cache_lock, bus_lock, after, pen, waiting>>
    /\ UNCHANGED notLock

\* the clock_tick between two cache operations: the end of Core.step, of
\* Core._context_switch, or Core.iddle
StepTick(c) ==
    /\ lpc[c] = "ready"
    /\ lpc' = [lpc EXCEPT ![c] = "tick"]
    /\ after' = [after EXCEPT ![c] = "ready"]
    /\ waiting' = waiting \cup {c}
    /\ ev' = NoEv
    /\ UNCHANGED <<cache_lock, bus_lock, pen, cyc, tries, nops>>
    /\ UNCHANGED notLock

\* CacheMemAssoc._acquire_local by the owner, one turn of its loop
TryLocal(c) ==
    /\ lpc[c] = "a_try"
    /\ IF cache_lock[c] = NoCore
       THEN /\ cache_lock' = [cache_lock EXCEPT ![c] = c]
            /\ Goto(c, "a_in")
            /\ tries' = tries
       ELSE /\ Retry(c, "a_try")
            /\ cache_lock' = cache_lock
    /\ ev' = NoEv
    /\ UNCHANGED <<bus_lock, pen, nops>>
    /\ UNCHANGED notLock

\* the op_local branch of an operation, from _acquire_local to
\* _release_local: the cache is searched, a store or a reservation changes
\* it; the operation is finished or goes on to the bus
LocalBody(c) ==
    /\ lpc[c] = "a_in"
    /\ \E touches \in BOOLEAN : ev' = Ev(IF touches THEN "local" ELSE "none", c, c)
    /\ cache_lock' = [cache_lock EXCEPT ![c] = NoCore]
    /\ \E finished \in BOOLEAN : Goto(c, IF finished THEN "ready" ELSE "pen_one")
    /\ UNCHANGED <<bus_lock, pen, tries, nops>>
    /\ UNCHANGED notLock

\* where a thread goes on after the last cycle of a penalty
PenNext(pos) ==
    IF pos = "pen_one" THEN "b_try"
    ELSE IF pos = "pen_wb" THEN "x_try"
    ELSE IF pos = "pen_mem" THEN "b_fill"
    ELSE "ready"

\* CacheMemAssoc._wait_penalty, one cycle: _wait_penalty(1) before the bus
\* is asked for, MEMORY_LOAD_PENALTY, BUS_DOWNTIME
WaitPenalty(c) ==
    /\ lpc[c] \in {"pen_one", "pen_wb", "pen_mem", "pen_down"}
    /\ IF lpc[c] = "pen_one" \/ pen[c] = 1
       THEN ClockTick(c, PenNext(lpc[c])) /\ pen' = [pen EXCEPT ![c] = 0]
       ELSE ClockTick(c, lpc[c]) /\ pen' = [pen EXCEPT ![c] = pen[c] - 1]
    /\ ev' = NoEv
    /\ UNCHANGED <<cache_lock, bus_lock, tries, nops>>
    /\ UNCHANGED notLock

\* a bus lock that is given to whoever asks
BusFree_Always == TRUE

\* Bus.lock.acquire(False) succeeds
BusFree == bus_lock = NoCore

\* CacheMemAssoc._acquire_with_bus, first half of a turn: the bus lock
TryBus(c) ==
    /\ lpc[c] = "b_try"
    /\ IF BusFree
       THEN /\ bus_lock' = c
            /\ Goto(c, "b_try2")
            /\ tries' = tries
       ELSE /\ Retry(c, "b_try")
            /\ bus_lock' = bus_lock
    /\ ev' = NoEv
    /\ UNCHANGED <<cache_lock, pen, nops>>
    /\ UNCHANGED notLock

\* CacheMemAssoc._acquire_with_bus, second half of a turn: with the bus
\* lock, the cache's own lock; if that fails the bus lock is given back
\* before the tick
TryCacheWithBus(c) ==
    /\ lpc[c] = "b_try2"
    /\ IF cache_lock[c] = NoCore
       THEN /\ cache_lock' = [cache_lock EXCEPT ![c] = c]
            /\ Goto(c, "b_in")
            /\ UNCHANGED <<bus_lock, tries>>
       ELSE /\ bus_lock' = NoCore
            /\ Retry(c, "b_try")
            /\ cache_lock' = cache_lock
    /\ ev' = NoEv
    /\ UNCHANGED <<pen, nops>>
    /\ UNCHANGED notLock

\* the bus branch of an operation up to the snoop: the cache is searched
\* again; on a miss _find_victim invalidates the victim and a Modified
\* victim goes to memory by Bus.write_back, which costs
\* MEMORY_LOAD_PENALTY; a store that hits a Shared line goes to the snoop
\* without a victim; a hit that needs no snoop goes to the end of the branch
BusBody(c) ==
    /\ lpc[c] = "b_in"
    /\ \E path \in {"hit", "miss", "missM", "upgrade"} :
          /\ ev' = Ev(IF path = "miss" THEN "victim"
                      ELSE IF path = "missM" THEN "write_back" ELSE "none", c, c)
          /\ pen' = [pen EXCEPT ![c] = IF path = "missM" THEN Cut(MEMORY_LOAD_PENALTY) ELSE 0]
          /\ Goto(c, IF path = "hit" THEN "b_fill"
                     ELSE IF path = "missM" THEN "pen_wb" ELSE "x_try")
    /\ UNCHANGED <<cache_lock, bus_lock, tries, nops>>
    /\ UNCHANGED notLock

\* an acquire_external that goes on without the peer cache's lock
AcquiredExternal_Skip(c) == cache_lock

\* CacheMemAssoc.acquire_external succeeded: the requester's thread holds
\* the peer cache's lock
AcquiredExternal(c) == [cache_lock EXCEPT ![Peer(c)] = c]

\* Bus.snoop_shared / snoop_exclusive: cache.acquire_external(requester),
\* one turn of the loop of _acquire_local with the requester as waiting core
TryExternal(c) ==
    /\ lpc[c] = "x_try"
    /\ IF cache_lock[Peer(c)] = NoCore
       THEN /\ cache_lock' = AcquiredExternal(c)
            /\ Goto(c, "x_in")
            /\ tries' = tries
       ELSE /\ Retry(c, "x_try")
            /\ cache_lock' = cache_lock
    /\ ev' = NoEv
    /\ UNCHANGED <<bus_lock, pen, nops>>
    /\ UNCHANGED notLock

\* Bus.snoop_shared / snoop_exclusive from snoop_find to release_external:
\* the peer's reservation and line may change, a Modified copy goes to
\* memory; then the requester waits MEMORY_LOAD_PENALTY
SnoopBody(c) ==
    /\ lpc[c] = "x_in"
    /\ \E touches \in BOOLEAN : ev' = Ev(IF touches THEN "snoop" ELSE "snoop_miss", c, Peer(c))
    /\ cache_lock' = [cache_lock EXCEPT ![Peer(c)] = NoCore]
    /\ pen' = [pen EXCEPT ![c] = Cut(MEMORY_LOAD_PENALTY)]
    /\ Goto(c, "pen_mem")
    /\ UNCHANGED <<bus_lock, tries, nops>>
    /\ UNCHANGED notLock

\* the end of the bus branch: the line is filled or written, the
\* reservation set or cleared, then _release_with_bus and BUS_DOWNTIME
FillBody(c) ==
    /\ lpc[c] = "b_fill"
    /\ \E touches \in BOOLEAN : ev' = Ev(IF touches THEN "fill" ELSE "none", c, c)
    /\ cache_lock' = [cache_lock EXCEPT ![c] = NoCore]
    /\ bus_lock' = NoCore
    /\ pen' = [pen EXCEPT ![c] = Cut(BUS_DOWNTIME)]
    /\ Goto(c, "pen_down")
    /\ UNCHANGED <<tries, nops>>
    /\ UNCHANGED notLock

\* Barrier.wait: both cores (and the driver) have arrived, all go on
TickRelease ==
    /\ waiting = Cores
    /\ waiting' = {}
    /\ lpc' = [c \in Cores |-> after[c]]
    /\ ev' = NoEv
    /\ UNCHANGED <<cache_lock, bus_lock, after, pen, cyc, tries, nops>>
    /\ UNCHANGED notLock

\* the steps of core c's thread on the locks
LockStep(c) ==
    \/ OpStart(c)
    \/ StepTick(c)
    \/ TryLocal(c)
    \/ LocalBody(c)
    \/ WaitPenalty(c)
    \/ TryBus(c)
    \/ TryCacheWithBus(c)
    \/ BusBody(c)
    \/ TryExternal(c)
    \/ SnoopBody(c)
    \/ FillBody(c)

LockNext ==
    \/ \E c \in Cores : LockStep(c)
    \/ TickRelease

LockSpec == Init /\ [][LockNext]_vars

---------------------------------------------------------------------------
(* Properties                                                              *)

Ways(c) == 0 .. (Assoc(c) - 1)
Sets(c) == 0 .. (NumSets(c) - 1)

\* cache c holds a line for block b with flag f
Holds(l, c, b, f) ==
    \E s \in Sets(c) : \E w \in Ways(c) : l[c][s][w].tag = b /\ l[c][s][w].flag = f

\* the step on which core c's SC returns to the memory stage with its result
SCCommit(c) == pc[c] # "wb" /\ pc'[c] = "wb" /\ op'[c].kind = "SC"

\* the step on which core c's store releases the bus (end of phase B)
StoreBusCommit(c) == pc[c] \in {"locked", "fill"} /\ pc'[c] = "wb" /\ op'[c].kind = "SW"

\* C1: in every reachable state, for every block at most one cache holds the
\* block Modified, and when one cache holds it Modified no other cache holds
\* it Shared.
C1_MSI ==
    \A b \in Blocks : \A c \in Cores :
        Holds(lines, c, b, FM) =>
            /\ ~Holds(lines, Peer(c), b, FM)
            /\ ~Holds(lines, Peer(c), b, FC)

\* a cache holds a block Modified that the peer held before and lost to the
\* snoop-exclusive
C1_Witness ==
    \E b \in Blocks : \E c \in Cores :
        Holds(lines, c, b, FM) /\ Holds(lines, Peer(c), b, FI)

Undisturbed(c, addr) ==
    /\ OnBlock(hist, c, addr)
    /\ ~hist[c].sc /\ ~hist[c].snoop /\ ~hist[c].store /\ ~hist[c].switch

\* C3: an SC succeeds if and only if, between the preceding LR on its core
\* (on the SC's block) and the SC, no snoop-exclusive on the block came from
\* the peer, no local store to the block was executed and no context switch
\* happened; in every other case it fails and writes 0 to rd.
C3_SCSucceedsIff ==
    [][\A c \in Cores :
         SCCommit(c) =>
            /\ op'[c].success <=> Undisturbed(c, op'[c].addr)
            /\ ~op'[c].success => op'[c].xd = 0]_vars

\* C4: whenever an SC on block B by core c succeeds, c's most recent LR was
\* on B and no snoop-exclusive on B from the peer was delivered to c's cache
\* since that LR.
C4_SuccessMeansNoSnoop ==
    [][\A c \in Cores :
         (SCCommit(c) /\ op'[c].success) =>
            (OnBlock(hist, c, op'[c].addr) /\ ~hist[c].snoop)]_vars

\* an SC succeeded through the bus while the peer had run a snoop-exclusive
\* on another block than the reserved one
C4_Witness ==
    \E c \in Cores :
        /\ pc[c] = "wb" /\ op[c].kind = "SC" /\ op[c].success /\ ~op[c].op_local
        /\ \E b \in Blocks : b # BlockOf(op[c].addr) /\ Holds(lines, Peer(c), b, FM)

\* C5: a store_conditional that reports success = false changes no word as
\* observed by the loads of any core, also when the reservation is lost
\* between phase A and phase B.
C5_FailedSCWritesNothing ==
    \A c \in Cores :
        (pc[c] = "wb" /\ op[c].kind = "SC" /\ ~op[c].success) => ~op[c].changed

\* an SC passed the reservation check of phase A, lost the reservation
\* before phase B and failed there
C5_Witness ==
    \E c \in Cores :
        pc[c] = "wb" /\ op[c].kind = "SC" /\ ~op[c].success /\ ~op[c].op_local

\* core c's preceding LR was at addr and nothing happened to the reservation
\* since: no SC, no snoop-exclusive or store from the peer, no local store,
\* no context switch
NoInterference(c, addr) ==
    /\ hist[c].lrA = addr
    /\ ~hist[c].sc /\ ~hist[c].snoop /\ ~hist[c].peerw
    /\ ~hist[c].store /\ ~hist[c].switch

\* C6 as stated (scenario S3): core 0 executes LR at address 0 and then SC
\* of 7 at address 0 with no interference; the SC writes 7 to rd, word 0 of
\* the main-memory block at address 0 is 7, and the reservation is cleared.
C6_S3_MemoryHoldsWord ==
    [][(SCCommit(0) /\ op'[0].addr = 0 /\ NoInterference(0, 0)) =>
          /\ op'[0].xd = 7
          /\ mem'[0][0] = 7
          /\ lr_dir'[0] = -1]_vars

\* C6, amended: an SC at the address of the core's preceding LR, with no
\* interference in between, succeeds and writes the stored value to rd; the
\* word is then in the core's Modified line and is what the loads of both
\* cores observe; main memory is not written by the SC; the reservation is
\* cleared.
C6_S3_CacheHoldsWord ==
    [][\A c \in Cores : \A a \in Addrs :
         (SCCommit(c) /\ op'[c].addr = a /\ NoInterference(c, a)) =>
            LET t == Find(lines', c, a)
            IN  /\ op'[c].success
                /\ op'[c].xd = StoreVal(c)
                /\ t # -1
                /\ Line(lines', c, a, t).flag = FM
                /\ Line(lines', c, a, t).data[OffsetOf(a)] = StoreVal(c)
                /\ \A q \in Cores :
                     LoadValue(mem', lines', q, BlockOf(a), OffsetOf(a)) = StoreVal(c)
                /\ mem' = mem
                /\ lr_dir'[c] = -1]_vars

\* scenario S3 has run on core 0: the SC returned 7, the word is in core 0's
\* Modified line and main memory still holds its initial word
C6_Witness ==
    /\ pc[0] = "wb" /\ op[0].kind = "SC" /\ op[0].addr = 0
    /\ hist[0].lrA = 0 /\ ~hist[0].snoop /\ ~hist[0].peerw
    /\ op[0].success /\ op[0].xd = 7
    /\ Holds(lines, 0, 0, FM)
    /\ LoadValue(mem, lines, 1, 0, 0) = 7
    /\ mem[0][0] = 1
    /\ lr_dir[0] = -1

\* core c's preceding LR was at addr, the peer has stored to addr since, and
\* c itself has run no SC, no store to the block and no context switch
PeerWrote(c, addr) ==
    /\ hist[c].lrA = addr
    /\ hist[c].peerw
    /\ ~hist[c].sc /\ ~hist[c].store /\ ~hist[c].switch

C8_SCConsumesReservation ==
    [][\A c \in Cores :
         SCCommit(c) =>
            /\ lr_dir'[c] = -1
            /\ hist[c].sc => ~op'[c].success]_vars

\* C9: if a context switch happened on a core after its last LR, an SC on
\* that core fails: rd = 0 and nothing is written.
C9_NoSCAcrossSwitch ==
    [][\A c \in Cores :
         (SCCommit(c) /\ hist[c].switch) =>
            /\ ~op'[c].success
            /\ op'[c].xd = 0
            /\ lines' = lines
            /\ mem' = mem]_vars

\* an SC at the address of the LR failed after a context switch, although
\* the cache still holds the reservation of the LR
C9_Witness ==
    \E c \in Cores :
        /\ pc[c] = "wb" /\ op[c].kind = "SC" /\ ~op[c].success
        /\ hist[c].switch /\ hist[c].lrA = op[c].addr
        /\ lr_dir[c] = BlockOf(op[c].addr)

\* core c writes memory inside its bus transaction: the write-back of its
\* Modified victim, or the write-back of the peer's Modified line that its
\* snoop hit
BusWrite(c) ==
    /\ busLock = c /\ busLock' = c /\ lock[c] = c
    /\ \/ /\ pc[c] = "locked" /\ pc'[c] = "snoop"
          /\ LET v == lines[c][IndexOf(c, op[c].addr)][VictimWay(c, IndexOf(c, op[c].addr))]
             IN  v.flag = FM /\ mem' = MemSet(mem, v.tag * PPB * BPP, v.data)
       \/ /\ pc[c] = "snoop" /\ pc'[c] = "fill"
          /\ LET t == Find(lines, Peer(c), op[c].addr)
             IN  /\ t # -1
                 /\ Line(lines, Peer(c), op[c].addr, t).flag = FM
                 /\ mem' = MemSet(mem, op[c].addr, Line(lines, Peer(c), op[c].addr, t).data)

\* core c's store or SC writes a line of its cache or makes it Modified
MakesModified(c) ==
    /\ op[c].kind \in {"SW", "SC"}
    /\ \E s \in Sets(c) : \E w \in Ways(c) :
          lines'[c][s][w] # lines[c][s][w] /\ lines'[c][s][w].flag = FM

\* C10: main memory changes only inside a bus transaction (the write-back
\* of an evicted Modified victim or of a Modified line hit by a snoop) whose
\* requester holds the bus lock, and a store or SC that makes a line
\* Modified leaves main memory unchanged.
C10_MemoryOnlyThroughBus ==
    [][/\ mem' # mem => \E c \in Cores : BusWrite(c)
       /\ \A c \in Cores : MakesModified(c) => mem' = mem]_vars

\* a line is Modified with a word main memory does not have, and another
\* block of main memory has taken a write-back
C10_Witness ==
    \E c \in Cores : \E b \in Blocks : \E b2 \in Blocks :
        /\ \E s \in Sets(c) : \E w \in Ways(c) :
              /\ lines[c][s][w].tag = b /\ lines[c][s][w].flag = FM
              /\ lines[c][s][w].data # mem[b]
        /\ b2 # b /\ mem[b2] # NewRamBlock

\* the step on which core c's miss in phase B selects its victim
VictimStep(c) == pc[c] = "locked" /\ pc'[c] = "snoop" /\ op'[c].miss

\* the step on which core c's store miss installs the fetched block
StoreMissFill(c) == pc[c] = "fill" /\ pc'[c] = "wb" /\ op[c].kind = "SW" /\ op[c].miss

\* C11: when a miss selects a Modified victim, the victim's words are in
\* main memory at the victim's own block before the line is reused; the
\* set's FIFO pointer advances by exactly one modulo the associativity on
\* every fill and on nothing else; after a store miss the new line holds the
\* requested block, Modified, with the stored word applied.
C11_VictimAndFill ==
    [][\A c \in Cores :
         LET idx == IndexOf(c, op[c].addr)
             v == lines[c][idx][fifo[c][idx]]
             n == lines'[c][idx][op[c].way]
         IN  /\ VictimStep(c) =>
                  /\ op'[c].way = fifo[c][idx]
                  /\ v.flag = FM => mem'[v.tag] = v.data
                  /\ v.flag # FM => mem' = mem
                  /\ fifo'[c][idx] = (fifo[c][idx] + 1) % Assoc(c)
                  /\ lines'[c][idx][fifo[c][idx]].flag = FI
             /\ fifo'[c] # fifo[c] => VictimStep(c)
             /\ StoreMissFill(c) =>
                  /\ lines[c][idx][op[c].way].flag = FI
                  /\ n.tag = BlockOf(op[c].addr)
                  /\ n.flag = FM
                  /\ n.data = [op[c].mem_b EXCEPT ![OffsetOf(op[c].addr)] = op[c].val]]_vars

\* core 1's miss has just evicted its Modified line of block 0: the line is
\* Invalid, its words are in main memory, and core 0 has never run
C11_Witness ==
    /\ pc[1] = "snoop" /\ op[1].miss
    /\ lines[1][IndexOf(1, op[1].addr)][op[1].way].tag = 0
    /\ lines[1][IndexOf(1, op[1].addr)][op[1].way].flag = FI
    /\ mem[0] = lines[1][IndexOf(1, op[1].addr)][op[1].way].data
    /\ mem[0] # NewRamBlock
    /\ \A s \in Sets(0) : \A w \in Ways(0) : lines[0][s][w] = NewCacheBlock

\* C12: in every cache and every reachable state, no two lines of a set
\* carry the same tag while both are non-Invalid, so the hit test matches at
\* most one line.
C12_TagUnique ==
    \A c \in Cores : \A s \in Sets(c) : \A w1 \in Ways(c) : \A w2 \in Ways(c) :
        (w1 # w2 /\ lines[c][s][w1].tag = lines[c][s][w2].tag)
            => (lines[c][s][w1].flag = FI \/ lines[c][s][w2].flag = FI)

\* two lines of one set carry the same tag, one Invalid (lost to a
\* snoop-exclusive) and one valid (the refill)
C12_Witness ==
    \E c \in Cores : \E s \in Sets(c) : \E w1 \in Ways(c) : \E w2 \in Ways(c) :
        /\ w1 # w2
        /\ lines[c][s][w1].tag = lines[c][s][w2].tag
        /\ lines[c][s][w1].flag = FI /\ lines[c][s][w2].flag # FI

FieldIs(w, lo, n, x) == \A i \in 0 .. (n - 1) : w[lo + i] = (x \div (2 ^ i)) % 2

\* C20: for every opcode in [0, 256), arg1 and arg2 in [0, 32) and arg3 in
\* [-8192, 8192), decoding the encoded word gives the four numbers back,
\* arg3 sign-extended from its 14-bit field, and the four fields occupy
\* disjoint bit ranges of a 32-bit word.
C20_CodecRoundTrip ==
    (hpc \in {"encoded", "checked", "error"} /\ EncodeAsserts(ins[1], ins[2], ins[3], ins[4])) =>
        /\ DOMAIN encoded_ins = 0 .. (INS_LENGTH - 1)
        /\ decode(encoded_ins) = ins
        /\ decoded # <<>> => decoded = ins /\ hpc = "checked"
        /\ hpc # "error"
        /\ FieldIs(encoded_ins, BS_OPCD, BS_ARG1 - BS_OPCD, ins[1])
        /\ FieldIs(encoded_ins, BS_ARG1, BS_ARG2 - BS_ARG1, ins[2])
        /\ FieldIs(encoded_ins, BS_ARG2, BS_ARG3 - BS_ARG2, ins[3])
        /\ FieldIs(encoded_ins, BS_ARG3, INS_LENGTH - BS_ARG3, ins[4])
        /\ \A i \in BitPos : M_OPCD[i] + M_ARG1[i] + M_ARG2[i] + M_ARG3[i] = 1
        /\ \A i \in BitPos : /\ M_OPCD[i] = 1 <=> (BS_OPCD <= i /\ i < BS_ARG1)
                             /\ M_ARG1[i] = 1 <=> (BS_ARG1 <= i /\ i < BS_ARG2)
                             /\ M_ARG2[i] = 1 <=> (BS_ARG2 <= i /\ i < BS_ARG3)
                             /\ M_ARG3[i] = 1 <=> (BS_ARG3 <= i /\ i < INS_LENGTH)

\* the line with every field at its largest and the most negative immediate
\* has passed the loader's check: bits 0 .. 17 and the sign bit 31 are set
C20_Witness ==
    /\ hpc = "checked"
    /\ ins = <<255, 31, 31, -8192>>
    /\ decoded = ins
    /\ encoded_ins = [i \in BitPos |-> IF i < BS_ARG3 \/ i = 31 THEN 1 ELSE 0]

\* the pids in a queue, and the pids the cores hold
QueuePids(q) == {q[i] : i \in 1 .. Len(q)}
HeldPids == {core_pcb[c] : c \in Cores} \ {NoPcb}

\* both cores have arrived at the barrier: a cycle boundary
CycleBoundary == Cores \subseteq n_waiting

\* the simulation is over and the driver has taken the finished PCBs off the
\* finished queue for its report
Reported == tpc[Main] \in {"reported", "dead"}

\* C13: PCBs are conserved: at every cycle boundary (and between them) the
\* PCBs in the ready queue, those held by the cores and those in the
\* finished queue are together exactly the loaded PCBs, each in one place.
C13_PcbConservation ==
    ~Reported =>
        /\ Len(ready_queue) + Cardinality({c \in Cores : core_pcb[c] # NoPcb})
               + Len(finished_queue) = loaded
        /\ QueuePids(ready_queue) \cup HeldPids \cup QueuePids(finished_queue)
               = 0 .. (loaded - 1)

\* a cycle boundary with a PCB in each of the three places, one of them
\* back in the ready queue after a preemption
C13_Witness ==
    /\ CycleBoundary
    /\ finished_queue # <<>>
    /\ HeldPids # {}
    /\ \E i \in 1 .. Len(ready_queue) : pcbs[ready_queue[i]].ticks > 0

\* C14: after every release of the barrier during the simulation, whether
\* a core is RUN or IDL, the clock counters of the two cores are equal.
C14_ClocksEqualAfterRelease ==
    [][(harness = "sim" /\ n_waiting # {} /\ n_waiting' = {}) => clock'[0] = clock'[1]]_vars

\* the same for the releases at which both cores are RUN
ClocksEqualWhileRun ==
    [][(harness = "sim" /\ n_waiting # {} /\ n_waiting' = {}
           /\ tpc[0] = "tick_run" /\ tpc[1] = "tick_run") => clock'[0] = clock'[1]]_vars

\* every loaded program reaches its FIN: no instruction raises
ReachFin ==
    \A i \in 1 .. Len(inst_mem) : ~(inst_mem[i].opc = "ADDI" /\ inst_mem[i].rd = 0)

\* the simulation is over: both cores IDL, done set, both core threads out
\* of their idle loop, the driver past its loop and its joins, nobody at
\* the barrier
Terminated ==
    /\ state[0] = IDL /\ state[1] = IDL
    /\ done
    /\ tpc[0] = "exit" /\ tpc[1] = "exit"
    /\ tpc[Main] = "end"
    /\ n_waiting = {}

\* C16: the simulation terminates: for every non-empty set of loaded PCBs
\* whose programs each reach FIN, eventually both cores are IDL, the driver
\* sets done, both core threads leave their idle loop and the driver's loop
\* ends; no thread is left waiting at the barrier.
C16_Terminates ==
    (harness = "sim" /\ loaded >= 1 /\ ReachFin) ~> Terminated

\* the same for two or more loaded PCBs
TerminatesFromTwo ==
    (harness = "sim" /\ loaded >= 2 /\ ReachFin) ~> Terminated

\* core c takes from the empty ready queue on this step: the take at the
\* start of run (from "start") or the take of a context switch (from "switch")
EmptyTake(c, from) ==
    /\ tpc[c] = from /\ tpc'[c] # from
    /\ ready_queue = <<>>

\* C17: every time a core takes a PCB and the ready queue is empty (at the
\* start of run and in each context switch), the core's state becomes IDL,
\* no error is raised, and the core goes on taking part in the barrier.
C17_EmptyTakeIsIdle ==
    [][\A c \in Cores : (EmptyTake(c, "start") \/ EmptyTake(c, "switch")) =>
           /\ state'[c] = IDL
           /\ core_pcb'[c] = NoPcb
           /\ tpc'[c] \in {"loop", "tick_run"}]_vars

\* the same for the take of a context switch alone: the core is IDL and
\* waits at the barrier of this cycle
EmptyTakeInSwitchIsIdle ==
    [][\A c \in Cores : EmptyTake(c, "switch") =>
           /\ state'[c] = IDL
           /\ core_pcb'[c] = NoPcb
           /\ tpc'[c] = "tick_run" /\ c \in n_waiting']_vars

\* core c executes on this step an instruction whose destination is r0
StepOnR0(c) ==
    /\ tpc[c] = "loop" /\ state[c] = RUN
    /\ core_pcb[c] # NoPcb
    /\ WritesRd(c) /\ Fetch(pc_reg[c]).rd = 0
    /\ pc_reg'[c] = pc_reg[c] + BPP

\* C18: an instruction whose destination register is r0 completes as a
\* no-op on the register file without raising an error (and r0 reads 0).
C18_WriteToR0IsNoop ==
    [][\A c \in Cores : StepOnR0(c) =>
           /\ registers' = registers
           /\ RegRead(registers'[c], 0) = 0
           /\ tpc'[c] = "tick_run"]_vars

\* r0 reads 0 in every state, in the cores and in the saved contexts
ZeroRegisterReadsZero ==
    /\ \A c \in Cores : RegRead(registers[c], 0) = 0 /\ registers[c][0] = 0
    /\ \A p \in 0 .. (loaded - 1) : pcbs[p].registers[0] = 0

\* the registers after the uninterrupted, sequential execution of the
\* program that starts at index k of the instruction memory, from registers regs
RECURSIVE SeqExec(_, _)
SeqExec(k, regs) ==
    IF inst_mem[k].opc = "FIN" THEN regs
    ELSE SeqExec(k + 1, [regs EXCEPT ![inst_mem[k].rd] =
                            RegRead(regs, inst_mem[k].rs) + inst_mem[k].imm])

\* the index in the instruction memory of the first instruction of program
\* pid, and of the instruction after its FIN
RECURSIVE ProgStart(_, _)
ProgStart(pid, k) ==
    IF pid = 0 THEN k
    ELSE ProgStart(IF inst_mem[k].opc = "FIN" THEN pid - 1 ELSE pid, k + 1)

RECURSIVE ProgEnd(_)
ProgEnd(k) == IF inst_mem[k].opc = "FIN" THEN k + 1 ELSE ProgEnd(k + 1)

SeqRegisters(pid) == SeqExec(ProgStart(pid, 1), [i \in Regs |-> 0])
SeqPc(pid) == InstBase + (ProgEnd(ProgStart(pid, 1)) - 1) * BPP

\* every finished PCB carries the registers and the PC of the sequential
\* execution of its program, however often it was preempted and on
\* whichever cores it ran
FinishedAsSequential ==
    \A i \in 1 .. Len(finished_queue) :
        LET p == finished_queue[i]
        IN  /\ pcbs[p].status = FINISHED
            /\ pcbs[p].registers = SeqRegisters(p)
            /\ pcbs[p].pc = SeqPc(p)

\* a single PCB run by Core.run on one core: when run returns, the core is
\* IDL and its registers are those of the sequential execution
SingleRunAsSequential ==
    (harness = "test" /\ tpc[0] = "exit") =>
        /\ state[0] = IDL
        /\ finished_queue = <<0>>
        /\ registers[0] = SeqRegisters(0)

\* a context switch saves the PC and the registers as they are, a take
\* restores the PC and r1 and up as saved, a PCB in a queue keeps them, and
\* the take that finds the queue empty leaves the core's registers alone
SaveAndRestore ==
    [][\A c \in Cores :
         /\ (tpc[c] = "loop" /\ tpc'[c] = "switch") =>
                LET p == core_pcb[c]
                IN  /\ pcbs'[p].pc = pc_reg[c]
                    /\ \A i \in Regs \ {0} : pcbs'[p].registers[i] = registers[c][i]
         /\ (tpc[c] \in {"start", "switch"} /\ tpc'[c] # tpc[c] /\ ready_queue # <<>>) =>
                LET p == Head(ready_queue)
                IN  /\ core_pcb'[c] = p
                    /\ pc_reg'[c] = pcbs[p].pc
                    /\ \A i \in Regs \ {0} : registers'[c][i] = pcbs[p].registers[i]
         /\ (tpc[c] \in {"start", "switch"} /\ tpc'[c] # tpc[c] /\ ready_queue = <<>>) =>
                registers'[c] = registers[c]
         /\ \A p \in 0 .. (loaded - 1) :
                (p \notin HeldPids /\ p \notin {core_pcb'[d] : d \in Cores}) =>
                    /\ pcbs'[p].pc = pcbs[p].pc
                    /\ pcbs'[p].registers = pcbs[p].registers]_vars

LoadedSpan == {ld.addr + (i - 1) * BPP : i \in 1 .. Len(ld.data)}

\* C21: bulk-load round trip: for every word-aligned address of the memory
\* and every word list that fits before the end of the memory, after
\* load(addr, W) the i-th word of W is read back through get at address
\* addr + 4*i, across block boundaries, and every word outside the loaded
\* span is unchanged.
C21_LoadRoundTrip ==
    (ld.addr # -1 /\ ld.addr + Len(ld.data) * BPP <= RamEnd) =>
        /\ ~ld.raised
        /\ \A i \in 1 .. Len(ld.data) :
               RamWord(ram, ld.addr + (i - 1) * BPP) = ld.data[i]
        /\ \A a \in RamAddrs \ LoadedSpan : RamWord(ram, a) = RamWord(ld.before, a)

\* a load of three words that starts at the last word of block 0, over
\* words an earlier load had written, has run into block 1
C21_Witness ==
    /\ nloads = 2
    /\ ld.addr = RamStart + (PPB - 1) * BPP
    /\ Len(ld.data) = 3
    /\ ld.before # [b \in Blocks |-> NewRamBlock]
    /\ RamWord(ram, RamStart + (PPB + 1) * BPP) = ld.data[3]

\* core c holds a PCB that is RUNNING with no quantum left
HoldsSpent(c) ==
    /\ core_pcb[c] # NoPcb
    /\ pcbs[core_pcb[c]].status = RUNNING
    /\ pcbs[core_pcb[c]].quantum = 0

\* C22 as stated: in every reachable state, cycle boundaries included, no
\* core holds a PCB whose status is RUNNING and whose quantum is zero.
C22_NoRunningZeroQuantum == \A c \in Cores : ~HoldsSpent(c)

\* C22 as the code has it: a core holds a RUNNING PCB with quantum zero from
\* the last step of its slice, over the barrier, to its context switch; as
\* long as the core holds it nothing is executed for it: the PCB, the PC
\* and the registers of the core stay as they are, and the core's next change
\* is the context switch that takes the PCB off the core.
C22_SpentPcbIsOnlySwitched ==
    [][\A c \in Cores :
          (HoldsSpent(c) /\ core_pcb'[c] = core_pcb[c]) =>
              /\ pcbs'[core_pcb[c]] = pcbs[core_pcb[c]]
              /\ pc_reg'[c] = pc_reg[c]
              /\ registers'[c] = registers[c]
              /\ state'[c] = state[c]]_vars

\* a core back at the head of its loop, past the barrier, with a RUNNING PCB
\* whose quantum is spent, while the other core is in the middle of a slice
C22_Witness ==
    \E c \in Cores :
        /\ HoldsSpent(c)
        /\ tpc[c] = "loop"
        /\ clock[c] > pcb_start_clock[c] + Quantum
        /\ core_pcb[Peer(c)] # NoPcb
        /\ pcbs[core_pcb[Peer(c)]].quantum > 0

\* the cycles of core c's clock since it took the PCB it holds
SliceCycles(c) == clock[c] - pcb_start_clock[c]

\* C23 as stated: the quantum is the largest number of consecutive cycles a
\* PCB runs on a core: no PCB stays RUNNING for more than Quantum cycles of
\* that core's clock between being scheduled and being switched out.
C23_AtMostQuantumCycles ==
    \A c \in Cores :
        (core_pcb[c] # NoPcb /\ pcbs[core_pcb[c]].status = RUNNING) =>
            SliceCycles(c) <= Quantum

\* C23 as the code has it: the quantum counts instructions, not cycles.  The
\* cycles of the core's clock between the scheduling of a PCB and its switch
\* out are the instructions it completed, at most Quantum, plus the penalty
\* cycles those instructions spent, plus at most one: the cycle of the
\* context switch that scheduled it, which is counted after the start of
\* the slice is taken.
C23_SliceCycles ==
    \A c \in Cores :
        core_pcb[c] # NoPcb =>
            /\ slice[c].steps <= Quantum
            /\ SliceCycles(c) >= slice[c].steps + slice[c].stalls
            /\ SliceCycles(c) <= slice[c].steps + slice[c].stalls + 1
            /\ SliceCycles(c) <= Quantum + slice[c].stalls + 1

\* a PCB scheduled by a context switch is about to be switched out after
\* Quantum instructions and a penalty cycle: Quantum + 2 cycles
C23_Witness ==
    \E c \in Cores :
        /\ HoldsSpent(c)
        /\ tpc[c] = "loop"
        /\ slice[c].steps = Quantum
        /\ slice[c].stalls = 1
        /\ SliceCycles(c) = Quantum + 2

\* C24: the driver sets done only in a state where both core threads are
\* paused at the barrier with state IDL, the ready queue is empty, no core
\* holds a PCB and the finished queue holds every loaded PCB, each FINISHED;
\* so the driver's removal of one finished PCB per loaded program never
\* finds the queue empty.
C24_DoneOnlyWhenAllFinished ==
    [][/\ (~done /\ done') =>
              /\ Cores \subseteq n_waiting
              /\ \A c \in Cores : state[c] = IDL /\ core_pcb[c] = NoPcb
              /\ ready_queue = <<>>
              /\ Len(finished_queue) = loaded
              /\ QueuePids(finished_queue) = 0 .. (loaded - 1)
              /\ \A p \in 0 .. (loaded - 1) : pcbs[p].status = FINISHED
       /\ (tpc[Main] = "end" /\ tpc'[Main] # "end") =>
              /\ Len(finished_queue) = loaded
              /\ tpc'[Main] = "reported"
              /\ finished_queue' = <<>>]_vars

\* the driver has set done after a run of MaxPcbs programs, one of them
\* preempted on the way, and has taken every finished PCB for its report
C24_Witness ==
    /\ done
    /\ tpc[Main] = "reported"
    /\ loaded = MaxPcbs
    /\ finished_queue = <<>>
    /\ \E p \in 0 .. (loaded - 1) : pcbs[p].ticks > Quantum + 1

\* C25: after a context switch completes, the core's LR register and its
\* data cache's reserved-block number are both -1.
C25_SwitchClearsReservation ==
    [][\A c \in Cores : ContextSwitch(c) => (lr'[c] = -1 /\ lr_dir'[c] = -1)]_vars

\* the half of it the code does: the LR register of the core is -1
SwitchClearsLrRegister ==
    [][\A c \in Cores : ContextSwitch(c) => lr'[c] = -1]_vars

\* C26: a PCB executes at most Quantum instructions per scheduling slice:
\* it enters a core with quantum Quantum, each step other than FIN
\* decrements the quantum by one, FIN sets it to 0 and the status to
\* FINISHED, and the core runs a context switch instead of a step as soon as
\* the quantum is 0.
C26_QuantumCountsSteps ==
    [][\A c \in Cores :
          /\ (core_pcb[c] = NoPcb /\ core_pcb'[c] # NoPcb) =>
                 /\ pcbs'[core_pcb'[c]].quantum = Quantum
                 /\ slice'[c].steps = 0
          /\ slice'[c].steps = slice[c].steps + 1 =>
                 /\ core_pcb'[c] = core_pcb[c]
                 /\ pcbs[core_pcb[c]].quantum > 0
                 /\ IF Fetch(pc_reg[c]).opc = "FIN"
                    THEN /\ pcbs'[core_pcb[c]].quantum = 0
                         /\ pcbs'[core_pcb[c]].status = FINISHED
                    ELSE /\ pcbs'[core_pcb[c]].quantum = pcbs[core_pcb[c]].quantum - 1
                         /\ pcbs'[core_pcb[c]].status = RUNNING
          /\ slice'[c].steps <= Quantum
          /\ (tpc[c] = "loop" /\ state[c] = RUN /\ pcbs[core_pcb[c]].quantum = 0
                 /\ tpc'[c] # "loop") =>
                 /\ tpc'[c] = "switch"
                 /\ core_pcb'[c] = NoPcb
                 /\ slice'[c] = slice[c]]_vars

\* a core has just switched out, after Quantum steps, a PCB that did not
\* reach its FIN: the PCB is last in the ready queue with a new quantum
C26_Witness ==
    \E c \in Cores :
        /\ tpc[c] = "switch"
        /\ slice[c].steps = Quantum
        /\ ready_queue # <<>>
        /\ pcbs[ready_queue[Len(ready_queue)]].quantum = Quantum
        /\ pcbs[ready_queue[Len(ready_queue)]].ticks >= Quantum

\* C27: every change to a cache's lines and to its reserved-block number
\* is made by a thread that holds that cache's lock: the owner in a local
\* or with-bus region, or the peer between acquire_external and
\* release_external.
C27_ChangesUnderLock ==
    ev.what \in {"local", "victim", "write_back", "snoop", "fill"} =>
        /\ ev.holder = ev.by
        /\ ev.cache # ev.by => ev.what = "snoop"

\* the requester has changed the peer's cache under the peer's lock while
\* the peer, after a failed try for its own cache, waits at the barrier
C27_Witness ==
    \E c \in Cores :
        /\ ev = [what |-> "snoop", by |-> c, cache |-> Peer(c), holder |-> c,
                 bus |-> c, own |-> c]
        /\ lpc[Peer(c)] = "tick" /\ after[Peer(c)] = "a_try"
        /\ tries[Peer(c)] = 1

\* the position of core c in its operation, also while it waits at the barrier
Pos(c) == IF lpc[c] = "tick" THEN after[c] ELSE lpc[c]

\* core c is between a successful _acquire_with_bus and _release_with_bus
InBusRegion(c) == Pos(c) \in {"b_in", "pen_wb", "x_try", "x_in", "pen_mem", "b_fill"}

\* C28: bus transactions are mutually exclusive and totally ordered: at
\* most one cache is inside a with-bus region at any time; snoop_shared,
\* snoop_exclusive and write_back run only while the requester holds the
\* bus lock and its own cache lock; the bus lock is always taken before the
\* cache lock.
C28_BusExclusive ==
    /\ \A c, d \in Cores : (InBusRegion(c) /\ InBusRegion(d)) => c = d
    /\ \A c \in Cores : InBusRegion(c) => (bus_lock = c /\ cache_lock[c] = c)
    /\ ev.what \in {"snoop", "snoop_miss", "write_back"} => (ev.bus = ev.by /\ ev.own = ev.by)
    /\ \A c \in Cores :
          /\ Pos(c) = "b_try2" => (bus_lock = c /\ cache_lock[c] # c)
          /\ (cache_lock[c] = c /\ Pos(c) # "a_in") => bus_lock = c

\* a core is in its snoop with both locks and the peer's lock, while the
\* peer waits at the barrier after a failed try for the bus
C28_Witness ==
    \E c \in Cores :
        /\ lpc[c] = "x_in"
        /\ bus_lock = c /\ cache_lock[c] = c /\ cache_lock[Peer(c)] = c
        /\ lpc[Peer(c)] = "tick" /\ after[Peer(c)] = "b_try"
        /\ tries[Peer(c)] >= 1

\* the positions at which a thread tries a lock
TryPos == {"a_try", "b_try", "b_try2", "x_try"}

\* C29: no thread blocks on a lock: every failed try-acquire of a cache lock
\* or of the bus lock is followed by exactly one barrier wait (one increment
\* of the waiting core's clock) before the next try, and a core that
\* obtains the bus lock but fails its own cache lock releases the bus
\* before it waits.
C29_FailedTryTicksOnce ==
    [][\A c \in Cores :
          /\ lpc[c] \in TryPos => ENABLED LockStep(c)
          /\ tries'[c] = tries[c] + 1 =>
                 /\ lpc[c] \in TryPos
                 /\ cyc'[c] = cyc[c] + 1
                 /\ cyc'[Peer(c)] = cyc[Peer(c)]
                 /\ lpc'[c] = "tick" /\ c \in waiting'
                 /\ after'[c] = (IF lpc[c] = "b_try2" THEN "b_try" ELSE lpc[c])
                 /\ cache_lock' = cache_lock
                 /\ bus_lock' = (IF lpc[c] = "b_try2" THEN NoCore ELSE bus_lock)
          /\ (lpc[c] = "tick" /\ lpc'[c] # "tick") =>
                 /\ waiting = Cores /\ waiting' = {}
                 /\ lpc'[c] = after[c]
                 /\ cyc' = cyc
          /\ (lpc[c] \in TryPos /\ lpc'[c] \in TryPos /\ lpc'[c] # lpc[c]) =>
                 (lpc[c] = "b_try" /\ lpc'[c] = "b_try2" /\ bus_lock' = c)]_vars

\* a core is in its snoop after two failed tries, one for the bus and one
\* for the peer's cache, each paid with one cycle on top of the cycle before
\* the bus is asked for
C29_Witness ==
    \E c \in Cores :
        /\ lpc[c] = "x_in"
        /\ tries[c] = 2
        /\ cyc[c] = 3
        /\ cyc[Peer(c)] >= 1

\* core c's cache operation returns on this step
OpReturns(c) == pc[c] # "wb" /\ pc'[c] = "wb"

\* C30: miss cost: a load, store, LR or SC that goes to the bus without
\* contention advances the requesting core's clock by exactly
\* 1 + MEMORY_LOAD_PENALTY + BUS_DOWNTIME = 35 when it fetches or upgrades
\* with a victim that is not Modified, and by 67 when a Modified victim is
\* written back; the peer's clock is never advanced by the operation.
C30_MissCost ==
    [][\A c \in Cores :
          /\ (OpReturns(c) /\ ~op'[c].op_local /\ op'[c].waited = 0) =>
                 /\ op'[c].cyc = (IF op'[c].victimM THEN 67 ELSE 35)
                 /\ op'[c].cyc = 1 + MEMORY_LOAD_PENALTY + BUS_DOWNTIME
                                   + (IF op'[c].victimM THEN MEMORY_LOAD_PENALTY ELSE 0)
          /\ (op'[c].cyc # op[c].cyc /\ pc[c] # "wb") =>
                 /\ op'[Peer(c)].cyc = op[Peer(c)].cyc
                 /\ pc'[Peer(c)] = pc[Peer(c)]]_vars

\* a store that missed has written its Modified victim back and returned
\* after 67 cycles, all of them on its own core, while the peer is in the
\* middle of an operation of its own
C30_Witness ==
    \E c \in Cores :
        /\ pc[c] = "wb"
        /\ op[c].kind = "SW"
        /\ ~op[c].op_local /\ op[c].waited = 0
        /\ op[c].victimM
        /\ op[c].cyc = 67
        /\ pc[Peer(c)] = "bus" /\ op[Peer(c)].cyc = 0

\* core c's thread arrives at the barrier on this step
Waits(c) == c \notin n_waiting /\ c \in n_waiting'

SnoopSharedReturns(c) == pc[c] = "snoop" /\ pc'[c] = "fill" /\ op[c].kind \in {"LW", "LR"}

\* C32: after snoop_shared(addr) returns, no peer cache holds addr's block
\* Modified: a peer that held it Modified has been written back to memory
\* and now holds it Shared with unchanged data, and the data returned to the
\* requester equal main memory's current words of that block.
C32_SnoopSharedPost ==
    [][\A c \in Cores :
         SnoopSharedReturns(c) =>
            LET a == op[c].addr
                b == BlockOf(a)
                p == Peer(c)
                t == Find(lines, p, a)
            IN  /\ ~Holds(lines', p, b, FM)
                /\ Holds(lines, p, b, FM) =>
                       /\ Line(lines', p, a, t).flag = FC
                       /\ Line(lines', p, a, t).tag = b
                       /\ Line(lines', p, a, t).data = Line(lines, p, a, t).data
                       /\ mem'[b] = Line(lines, p, a, t).data
                /\ op'[c].mem_b = mem'[b]]_vars

\* a snoop-shared has just returned a block the peer held Modified: the
\* peer's line is Shared, and memory and the returned data carry the word
\* the peer stored
C32_Witness ==
    \E c \in Cores :
        /\ pc[c] = "fill" /\ op[c].kind \in {"LW", "LR"}
        /\ Holds(lines, Peer(c), BlockOf(op[c].addr), FC)
        /\ op[c].mem_b # NewRamBlock
        /\ mem[BlockOf(op[c].addr)] = op[c].mem_b
        /\ nins = 2

\* core c takes a step of the operation in its memory stage
Moves(c) == pc'[c] # pc[c] \/ op'[c] # op[c]

\* the step on which core c's store writes its word: the Modified hit of
\* phase A, or the end of phase B
StoreWrites(c) ==
    /\ op[c].kind = "SW" /\ pc[c] \in {"local", "locked", "fill"} /\ pc'[c] = "wb"

\* C33: a store clears that cache's reservation exactly when the stored
\* block equals the reserved block, on the phase-A Modified hit path and on
\* every phase-B path; a store to any other block, and every plain load
\* (also one that evicts the reserved block), leaves the reserved-block
\* number unchanged.
C33_StoreClearsOwnReservation ==
    [][\A c \in Cores :
         /\ StoreWrites(c) =>
                lr_dir'[c] = IF lr_dir[c] = BlockOf(op[c].addr) THEN -1 ELSE lr_dir[c]
         /\ (op[c].kind = "SW" /\ Moves(c) /\ ~StoreWrites(c)) => lr_dir'[c] = lr_dir[c]
         /\ (op[c].kind = "LW" /\ Moves(c)) => lr_dir' = lr_dir]_vars

\* core 1 reserved a block, its load of the other block evicted the
\* reserved line with the reservation standing, and its store to the
\* reserved block, a miss through the bus, has cleared the reservation
C33_Witness ==
    /\ pc[1] = "wb" /\ op[1].kind = "SW" /\ ~op[1].hit
    /\ hist[1].lrA # -1 /\ BlockOf(hist[1].lrA) = BlockOf(op[1].addr)
    /\ hist[1].store /\ ~hist[1].snoop /\ ~hist[1].switch /\ ~hist[1].sc
    /\ lr_dir[1] = -1
    /\ nins = 3

\* the step on which core c's miss installs the fetched block in its victim line
MissFill(c) == pc[c] = "fill" /\ pc'[c] = "wb" /\ op[c].miss

\* way w is the least recently filled line of the set: a line never filled
\* while there is one, the oldest fill otherwise
LeastRecentlyFilled(c, idx, w) ==
    LET order == filled[c][idx]
        never == Ways(c) \ {order[i] : i \in 1 .. Len(order)}
    IN  IF never # {} THEN w \in never ELSE w = order[1]

LoadReturns(c) == op[c].kind \in {"LW", "LR"} /\ pc[c] # "wb" /\ pc'[c] = "wb"

\* every two non-Invalid lines of block b in the caches l hold the same words
CopiesAgree(l, b) ==
    \A c1 \in Cores : \A c2 \in Cores : \A w1 \in Ways(c1) : \A w2 \in Ways(c2) :
        \A s1 \in Sets(c1) : \A s2 \in Sets(c2) :
            (/\ l[c1][s1][w1].tag = b /\ l[c1][s1][w1].flag # FI
             /\ l[c2][s2][w2].tag = b /\ l[c2][s2][w2].flag # FI)
                => l[c1][s1][w1].data = l[c2][s2][w2].data

\* C35: coherent reads: in every interleaving, a load (LW or LR) returns
\* the value written by the most recent store or successful SC to that word
\* in the order given by the cache and bus locks, or the initial memory
\* content when there is none; all non-Invalid copies of a block in the
\* caches hold the same data words.
C35_CoherentReads ==
    [][/\ \A c \in Cores :
            /\ LoadReturns(c) =>
                   op'[c].xd = latest[BlockOf(op[c].addr)][OffsetOf(op[c].addr)]
            /\ SnoopSharedReturns(c) => op'[c].mem_b = latest[BlockOf(op[c].addr)]
       /\ \A b \in Blocks : CopiesAgree(lines, b) /\ CopiesAgree(lines', b)]_vars

\* core 0's load has returned the word core 1 stored, from a line it
\* fetched through the bus after core 1 had written the block back to
\* memory on an eviction
C35_Witness ==
    /\ pc[0] = "wb" /\ op[0].kind \in {"LW", "LR"} /\ ~op[0].hit
    /\ op[0].xd = StoreVal(1)
    /\ ~Holds(lines, 1, BlockOf(op[0].addr), FC)
    /\ ~Holds(lines, 1, BlockOf(op[0].addr), FM)
    /\ mem[BlockOf(op[0].addr)][OffsetOf(op[0].addr)] = StoreVal(1)

\* C36: SC atomicity: when both cores hold a reservation on the same block
\* and both execute SC on that block with no LR in between, at most one of
\* the two SCs succeeds, in every interleaving; so a read-modify-write built
\* from LR and a successful SC never loses an update of the other core.
\* An SC succeeds only when the other core has written no word of the block,
\* by a store or a successful SC, since this core's LR: of two SCs that
\* follow both LRs the one that commits second finds the write of the first.
C36_SCAtomic ==
    [][\A c \in Cores :
         (SCCommit(c) /\ op'[c].success) =>
            /\ OnBlock(hist, c, op'[c].addr)
            /\ ~hist[c].wr
            /\ latest'[BlockOf(op'[c].addr)][OffsetOf(op'[c].addr)] = op'[c].val
            /\ lr_dir'[Peer(c)] # BlockOf(op'[c].addr)]_vars

\* both cores reserved block 0 and both ran their SC with nothing else
\* executed: core 0's SC failed after core 1's SC, which came after core 0's
\* LR, had written the block
C36_Witness ==
    /\ nins = 0
    /\ pc[0] = "wb" /\ op[0].kind = "SC" /\ ~op[0].success /\ ~op[0].op_local
    /\ hist[0].lrA = op[0].addr /\ hist[0].wr
    /\ hist[1].sc /\ hist[1].lrA # -1 /\ BlockOf(hist[1].lrA) = BlockOf(op[0].addr)
    /\ latest[BlockOf(hist[1].lrA)][OffsetOf(hist[1].lrA)] = StoreVal(1)

\* C37: whenever a cache line is Shared, its data words equal the words of
\* the main-memory block with that tag; main memory can differ from a cached
\* copy only for a block held Modified.
C37_SharedEqualsMemory ==
    \A c \in Cores : \A s \in Sets(c) : \A w \in Ways(c) :
        LET l == lines[c][s][w]
        IN  /\ l.flag = FC => (l.tag \in Blocks /\ l.data = mem[l.tag])
            /\ (l.flag # FI /\ l.tag \in Blocks /\ l.data # mem[l.tag]) => l.flag = FM

\* both caches hold a block Shared with a stored word in it, and main
\* memory, written back by the snoop, holds the same words
C37_Witness ==
    \E b \in Blocks :
        /\ Holds(lines, 0, b, FC) /\ Holds(lines, 1, b, FC)
        /\ mem[b] # NewRamBlock
        /\ \A c \in Cores : \A w \in Offsets : LoadValue(mem, lines, c, b, w) = mem[b][w]

\* the step on which cache p comes to hold block b Modified
BecomesModified(p, b) == Holds(lines', p, b, FM) /\ ~Holds(lines, p, b, FM)

\* C38: whenever a cache's reserved-block number equals a block B, no other
\* cache on the bus holds B Modified: every transition of a peer to Modified
\* on B first clears this cache's reservation on B, also when this cache no
\* longer holds B because it was evicted.
C38_ReservedNotModifiedElsewhere ==
    [][\A c \in Cores : \A b \in Blocks :
         /\ lr_dir[c] = b => ~Holds(lines, Peer(c), b, FM)
         /\ lr_dir'[c] = b => ~Holds(lines', Peer(c), b, FM)
         /\ BecomesModified(Peer(c), b) => (lr_dir[c] # b /\ lr_dir'[c] # b)
         /\ (pc[c] = "snoop" /\ pc'[c] = "fill" /\ op[c].kind \in {"SW", "SC"}
                /\ b = BlockOf(op[c].addr)) => lr_dir'[Peer(c)] # b]_vars

\* core 1 reserved block 0 and evicted it by a load of block 1; core 0's
\* store to block 0 found no line in core 1, cleared core 1's reservation
\* and holds the block Modified
C38_Witness ==
    /\ hist[1].lrA # -1 /\ BlockOf(hist[1].lrA) = 0 /\ hist[1].snoop
    /\ ~hist[1].sc /\ ~hist[1].store /\ ~hist[1].switch
    /\ \A w \in Ways(1) : lines[1][IndexOf(1, 0)][w].tag = 1
    /\ lr_dir[1] = -1
    /\ Holds(lines, 0, 0, FM)
    /\ pc[0] = "wb" /\ op[0].kind = "SW"

\* the number of cores the harness runs
NumCores == IF harness = "test" THEN 1 ELSE 2

\* the steps of core c that run _pcb_out and _pcb_in
PcbOutStep(c) == tpc[c] = "loop" /\ tpc'[c] = "switch"
PcbInStep(c) == tpc[c] \in {"start", "switch"} /\ tpc'[c] # tpc[c]

\* the queues as the assertions expect them: the ready FIFO holds READY
\* PCBs with a full quantum, the finished FIFO holds FINISHED PCBs that are
\* neither ready nor on a core
QueuesSound(rq, fq, ps, cp) ==
    /\ \A i \in 1 .. Len(rq) : ps[rq[i]].status = READY /\ ps[rq[i]].quantum = Quantum
    /\ \A i \in 1 .. Len(fq) :
          /\ ps[fq[i]].status = FINISHED
          /\ \A j \in 1 .. Len(rq) : rq[j] # fq[i]
          /\ \A c \in Cores : cp[c] # fq[i]

\* C39: the scheduler and PCB assertions never fail in a run that starts
\* with at least as many PCBs as cores: every PCB in the ready FIFO has
\* status READY and quantum Q, every PCB passed to put_ready or put_finished
\* has quantum 0, every PCB in the finished FIFO has status FINISHED and is
\* never scheduled again, and a PCB taken by a core is READY and becomes
\* RUNNING.
C39_AssertionsHold ==
    [][loaded >= NumCores =>
         /\ QueuesSound(ready_queue, finished_queue, pcbs, core_pcb)
         /\ QueuesSound(ready_queue', finished_queue', pcbs', core_pcb')
         /\ \A p \in DOMAIN pcbs :
               pcbs[p].status = FINISHED =>
                  /\ pcbs'[p].status = FINISHED
                  /\ \A c \in Cores : core_pcb'[c] = p => core_pcb[c] = p
         /\ \A c \in Cores :
               /\ PcbOutStep(c) =>
                     /\ core_pcb[c] # NoPcb
                     /\ pcbs[core_pcb[c]].quantum = 0
                     /\ pcbs[core_pcb[c]].status \in {RUNNING, FINISHED}
               /\ PcbInStep(c) =>
                     /\ core_pcb[c] = NoPcb
                     /\ tpc'[c] # "dead"
                     /\ ready_queue # <<>> =>
                           /\ pcbs[Head(ready_queue)].status = READY
                           /\ core_pcb'[c] = Head(ready_queue)
                           /\ pcbs'[Head(ready_queue)].status = RUNNING]_vars

\* two cores and at least two PCBs: one PCB is finished and queued, and a
\* core runs a PCB that was switched out before and taken again from the
\* ready FIFO
C39_Witness ==
    /\ harness = "sim" /\ loaded >= NumCores
    /\ finished_queue # <<>>
    /\ \E c \in Cores :
          /\ core_pcb[c] # NoPcb
          /\ pcbs[core_pcb[c]].status = RUNNING
          /\ pcbs[core_pcb[c]].ticks > 0

\* C40: the "unexpected path" of store and store_conditional is
\* unreachable: when an operation that left phase A because the block was
\* absent or Shared re-checks the block in phase B, the block is never
\* Modified in its own cache.
C40_NoUnexpectedPath ==
    \A c \in Cores :
        (pc[c] \in {"bus", "locked"} /\ op[c].kind \in {"SW", "SC"}) =>
            /\ ~op[c].op_local
            /\ ~Holds(lines, c, BlockOf(op[c].addr), FM)

\* a store that left phase A on a Shared hit holds the bus for the
\* re-check, and the peer's store has invalidated the line in between
C40_Witness ==
    \E c \in Cores :
        /\ pc[c] = "locked" /\ op[c].kind = "SW" /\ ~op[c].op_local /\ op[c].hit
        /\ Find(lines, c, op[c].addr) = -1
        /\ Holds(lines, c, BlockOf(op[c].addr), FI)
        /\ Holds(lines, Peer(c), BlockOf(op[c].addr), FM)

====
